---- MODULE Spec2Model ----
(***************************************************************************)
(* State-machine model of the Aurora build tooling (Scripts/):             *)
(*   - installExternals.py: the externals installer's main sequence        *)
(*     (context construction, staleness check, preflight, install loop,    *)
(*     externalsConfig.cmake generation) and its version stamps;           *)
(*   - DownloadURL: download with retry, extraction through a scratch      *)
(*     directory, quarantine of a bad archive.                             *)
(* Text is modelled as a sequence of tokens: names are sequences of        *)
(* characters (so that lower() is computed), URLs are sequences of path    *)
(* segments and "/" separators (so that split("/") is computed).           *)
(***************************************************************************)
EXTENDS Integers, Sequences, FiniteSets, TLC

VARIABLES
    platform,            \* platform.system(): "Windows" or "Linux"
    scriptVersion,       \* the scriptVersion constant of the script that runs
    dirs,                \* which of the install/src/build directories exist
    instFiles,           \* files under the install root: <<folder, relative path>>
    stamps,              \* <packageName>.version.txt files: packageName -> content
    configFile,          \* Scripts/cmake/externalsConfig.cmake
    pc,                  \* position of the installer script
    args,                \* parsed command line of the current run
    env,                 \* toolchain found on this machine in the current run
    context,             \* the InstallContext of the current run
    scheduled,           \* whether this run has computed dependenciesToBuild
    dependenciesToBuild, \* the scheduled dependencies (indices of AllDependencies)
    loopIdx,             \* next position of the install loop
    exitCode,            \* <<>> while running, <<status>> after sys.exit / end
    startFiles,          \* instFiles when the staleness check ran
    startStamps,         \* stamps when the staleness check ran
    invoked,             \* installers called in this run, in order
    raised,              \* the dependency whose installer raised in this run
    stampWrites,         \* stamp files written in this run: <<packageName, text>>
    configWrites,        \* number of times this run wrote externalsConfig.cmake
    effects,             \* side effects of this run before the install loop
    runs,                \* number of runs launched
    previous,            \* what the run before did, when this run directly follows it
    disturbances,        \* number of changes made between runs
    dl,                  \* state of one DownloadURL call and of the source directory
    clone,               \* state of one GitClone / GitCloneSHA call and of the clone folders
    deploy,              \* state of one deployHdAurora.py run, of the build output and the host tree
    minify,              \* state of one minifyShaders.py run and the headers it has written
    proc,                \* the installer process at the level of its commands: working
                         \* directory, log files, prefix paths
    patch                \* a source file PatchFile is applied to, and its backup

vars == <<platform, scriptVersion, dirs, instFiles, stamps, configFile, pc, args,
          env, context, scheduled, dependenciesToBuild, loopIdx, exitCode, startFiles,
          startStamps, invoked, raised, stampWrites, configWrites, effects,
          runs, previous, disturbances, dl, clone, deploy, minify, proc, patch>>

installerVars == <<platform, scriptVersion, dirs, instFiles, stamps, configFile, pc,
          args, env, context, scheduled, dependenciesToBuild, loopIdx, exitCode, startFiles,
          startStamps, invoked, raised, stampWrites, configWrites, effects,
          runs, previous, disturbances>>

\* The state outside the installer's main sequence.
toolVars == <<dl, clone, deploy, minify, proc, patch>>

\* What a call of DownloadURL leaves alone.
notDownload == <<installerVars, clone, deploy, minify, proc, patch>>

\* What a call of GitClone or GitCloneSHA leaves alone.
notClone == <<installerVars, dl, deploy, minify, proc, patch>>

\* What a run of deployHdAurora.py leaves alone.
notDeploy == <<installerVars, dl, clone, minify, proc, patch>>

\* What a run of minifyShaders.py leaves alone.
notMinify == <<installerVars, dl, clone, deploy, proc, patch>>

\* What the commands of an installer process leave alone.
notProc == <<installerVars, dl, clone, deploy, minify, patch>>

\* What a call of PatchFile leaves alone.
notPatch == <<installerVars, dl, clone, deploy, minify, proc>>

---------------------------------------------------------------------------
\* Bounds of the model.

\* Installer runs in one behaviour.
MaxRuns == 2

\* Changes made to the install tree or to the script between runs.
MaxDisturbances == 1

---------------------------------------------------------------------------
\* Text helpers.

UpperCase == <<"A","B","C","D","E","F","G","H","I","J","K","L","M",
               "N","O","P","Q","R","S","T","U","V","W","X","Y","Z">>

LowerCase == <<"a","b","c","d","e","f","g","h","i","j","k","l","m",
               "n","o","p","q","r","s","t","u","v","w","x","y","z">>

\* str.lower() of one character.
LowerChar(c) ==
    IF \E i \in 1..Len(UpperCase) : UpperCase[i] = c
    THEN LowerCase[CHOOSE i \in 1..Len(UpperCase) : UpperCase[i] = c]
    ELSE c

\* str.lower()
Lower(s) == [i \in 1..Len(s) |-> LowerChar(s[i])]

\* x in list
InList(x, list) == \E i \in 1..Len(list) : list[i] = x

---------------------------------------------------------------------------
\* The dependency descriptors, in the order of their declaration.

\* Every Dependency(...) of the script, with the values it takes on each platform.
DeclaredDependencies[system \in {"Windows", "Linux"}] ==
    <<
       [name |-> <<"z", "l", "i", "b">>, packageName |-> "ZLIB",
        versionString |->
            <<"https:", "/", "/", "github.com", "/", "madler", "/", "zlib", "/", "archive", "/", "v1.2.13.zip">>,
        filesToCheck |-> <<"include/zlib.h">>],
       [name |-> <<"b", "o", "o", "s", "t">>, packageName |-> "Boost",
        versionString |->
            <<"https:", "/", "/", "boostorg.jfrog.io", "/", "artifactory", "/", "main", "/", "release", "/", "1.78.0", "/", "source", "/", "boost_1_78_0.tar.gz">>,
        filesToCheck |-> <<IF system = "Windows" THEN "include/boost-1_78/boost/version.hpp"
            ELSE "include/boost/version.hpp">>],
       [name |-> <<"t", "b", "b">>, packageName |-> "TBB",
        versionString |->
            IF system = "Windows" THEN <<"https:", "/", "/", "github.com", "/", "oneapi-src", "/", "oneTBB", "/", "releases", "/", "download", "/", "2019_U6", "/", "tbb2019_20190410oss_win.zip">>
            ELSE <<"https:", "/", "/", "github.com", "/", "oneapi-src", "/", "oneTBB", "/", "archive", "/", "refs", "/", "tags", "/", "2019_U6.tar.gz">>,
        filesToCheck |-> <<"include/tbb/tbb.h">>],
       [name |-> <<"l", "i", "b", "j", "p", "e", "g">>, packageName |-> "JPEG",
        versionString |->
            <<"https:", "/", "/", "github.com", "/", "libjpeg-turbo", "/", "libjpeg-turbo", "/", "archive", "/", "1.5.1.zip">>,
        filesToCheck |-> <<"include/jpeglib.h">>],
       [name |-> <<"l", "i", "b", "t", "i", "f", "f">>, packageName |-> "TIFF",
        versionString |->
            <<"https:", "/", "/", "gitlab.com", "/", "libtiff", "/", "libtiff", "/", "-", "/", "archive", "/", "v4.0.7", "/", "libtiff-v4.0.7.tar.gz">>,
        filesToCheck |-> <<"include/tiff.h">>],
       [name |-> <<"l", "i", "b", "p", "n", "g">>, packageName |-> "PNG",
        versionString |->
            <<"https:", "/", "/", "github.com", "/", "glennrp", "/", "libpng", "/", "archive", "/", "refs", "/", "tags", "/", "v1.6.29.tar.gz">>,
        filesToCheck |-> <<"include/png.h">>],
       [name |-> <<"g", "l", "m">>, packageName |-> "glm",
        versionString |->
            <<"https:", "/", "/", "github.com", "/", "g-truc", "/", "glm", "/", "archive", "/", "refs", "/", "tags", "/", "0.9.9.8.zip">>,
        filesToCheck |-> <<"glm/glm.hpp">>],
       [name |-> <<"s", "t", "b">>, packageName |-> "stb",
        versionString |->
            <<"5736b15f7ea0ffb08dd38af21067c314d6a3aae9">>,
        filesToCheck |-> <<"include/stb_image.h">>],
       [name |-> <<"t", "i", "n", "y", "g", "l", "t", "f">>, packageName |-> "TinyGLTF",
        versionString |->
            <<"https:", "/", "/", "github.com", "/", "syoyo", "/", "tinygltf", "/", "archive", "/", "refs", "/", "tags", "/", "v2.5.0.zip">>,
        filesToCheck |-> <<"include/tiny_gltf.h">>],
       [name |-> <<"t", "i", "n", "y", "o", "b", "j", "l", "o", "a", "d", "e", "r">>, packageName |-> "tinyobjloader",
        versionString |->
            <<"https:", "/", "/", "github.com", "/", "tinyobjloader", "/", "tinyobjloader", "/", "archive", "/", "refs", "/", "tags", "/", "v2.0-rc1.zip">>,
        filesToCheck |-> <<"include/tiny_obj_loader.h">>],
       [name |-> <<"O", "p", "e", "n", "E", "X", "R">>, packageName |-> "OpenEXR",
        versionString |->
            IF system = "Windows" THEN <<"https:", "/", "/", "github.com", "/", "AcademySoftwareFoundation", "/", "openexr", "/", "archive", "/", "refs", "/", "tags", "/", "v2.5.2.zip">>
            ELSE <<"https:", "/", "/", "github.com", "/", "AcademySoftwareFoundation", "/", "openexr", "/", "archive", "/", "refs", "/", "tags", "/", "v2.4.3.zip">>,
        filesToCheck |-> <<"include/OpenEXR/ImfVersion.h">>],
       [name |-> <<"O", "p", "e", "n", "I", "m", "a", "g", "e", "I", "O">>, packageName |-> "OpenImageIO",
        versionString |->
            <<"https:", "/", "/", "github.com", "/", "OpenImageIO", "/", "oiio", "/", "archive", "/", "refs", "/", "tags", "/", "v2.4.5.0.zip">>,
        filesToCheck |-> <<"include/OpenImageIO/oiioversion.h">>],
       [name |-> <<"O", "p", "e", "n", "S", "u", "b", "d", "i", "v">>, packageName |-> "OpenSubdiv",
        versionString |->
            <<"https:", "/", "/", "github.com", "/", "PixarAnimationStudios", "/", "OpenSubdiv", "/", "archive", "/", "v3_4_4.zip">>,
        filesToCheck |-> <<"include/opensubdiv/version.h">>],
       [name |-> <<"M", "a", "t", "e", "r", "i", "a", "l", "X">>, packageName |-> "MaterialX",
        versionString |->
            <<"https:", "/", "/", "github.com", "/", "materialx", "/", "MaterialX", "/", "archive", "/", "v1.38.5.zip">>,
        filesToCheck |-> <<"include/MaterialXCore/Library.h">>],
       [name |-> <<"U", "S", "D">>, packageName |-> "pxr",
        versionString |->
            <<"https:", "/", "/", "github.com", "/", "autodesk-forks", "/", "USD", "/", "archive", "/", "refs", "/", "tags", "/", "v22.08-Aurora-v22.11.zip">>,
        filesToCheck |-> <<"include/pxr/pxr.h">>],
       [name |-> <<"S", "l", "a", "n", "g">>, packageName |-> "Slang",
        versionString |->
            IF system = "Windows" THEN <<"https:", "/", "/", "github.com", "/", "shader-slang", "/", "slang", "/", "releases", "/", "download", "/", "v0.24.35", "/", "slang-0.24.35-win64.zip">>
            ELSE <<"https:", "/", "/", "github.com", "/", "shader-slang", "/", "slang", "/", "releases", "/", "download", "/", "v0.24.35", "/", "slang-0.24.35-linux-x86_64.zip">>,
        filesToCheck |-> <<"slang.h">>],
       [name |-> <<"N", "R", "D">>, packageName |-> "NRD",
        versionString |->
            <<"https:", "/", "/", "github.com", "/", "NVIDIAGameWorks", "/", "RayTracingDenoiser.git">>,
        filesToCheck |-> <<"include/NRD.h">>],
       [name |-> <<"N", "R", "I">>, packageName |-> "NRI",
        versionString |->
            <<"https:", "/", "/", "github.com", "/", "NVIDIAGameWorks", "/", "NRI.git">>,
        filesToCheck |-> <<"include/NRI.h">>],
       [name |-> <<"g", "l", "e", "w">>, packageName |-> "GLEW",
        versionString |->
            <<"https:", "/", "/", "github.com", "/", "nigels-com", "/", "glew", "/", "releases", "/", "download", "/", "glew-2.2.0", "/", "glew-2.2.0-win32.zip">>,
        filesToCheck |-> <<"include/GL/glew.h">>],
       [name |-> <<"G", "L", "F", "W">>, packageName |-> "glfw3",
        versionString |->
            <<"https:", "/", "/", "github.com", "/", "glfw", "/", "glfw", "/", "archive", "/", "refs", "/", "tags", "/", "3.3.8.zip">>,
        filesToCheck |-> <<"include/GLFW/glfw3.h">>],
       [name |-> <<"c", "x", "x", "o", "p", "t", "s">>, packageName |-> "cxxopts",
        versionString |->
            <<"https:", "/", "/", "github.com", "/", "jarro2783", "/", "cxxopts", "/", "archive", "/", "refs", "/", "tags", "/", "v3.0.0.zip">>,
        filesToCheck |-> <<"include/cxxopts.hpp">>],
       [name |-> <<"g", "t", "e", "s", "t">>, packageName |-> "GTest",
        versionString |->
            <<"https:", "/", "/", "github.com", "/", "google", "/", "googletest", "/", "archive", "/", "refs", "/", "tags", "/", "release-1.12.1.zip">>,
        filesToCheck |-> <<"include/gtest/gtest.h">>]
    >>


\* AllDependencies, as filled by Dependency.__init__ on the running platform.
AllDependencies == DeclaredDependencies[platform]

\* The module-level variables that name the descriptors (ZLIB = Dependency(...)).
Idx ==
    [ZLIB |-> 1, BOOST |-> 2, TBB |-> 3, JPEG |-> 4, TIFF |-> 5, PNG |-> 6,
     GLM |-> 7, STB |-> 8, TINYGLTF |-> 9, TINYOBJLOADER |-> 10, OPENEXR |-> 11,
     OPENIMAGEIO |-> 12, OPENSUBDIV |-> 13, MATERIALX |-> 14, USD |-> 15,
     SLANG |-> 16, NRD |-> 17, NRI |-> 18, GLEW |-> 19, GLFW |-> 20,
     CXXOPTS |-> 21, GTEST |-> 22]

\* Dependency.__init__: self.installFolder = name
InstallFolder(d) == AllDependencies[d].name

\* Faulty variant: the name map is keyed by the name as declared.
RegisteredByNameExact(list) ==
    [n \in {list[i].name : i \in 1..Len(list)} |->
        CHOOSE i \in 1..Len(list) :
            /\ list[i].name = n
            /\ \A j \in 1..(i - 1) : list[j].name # n]

\* AllDependenciesByName.setdefault(name.lower(), self), for every descriptor
\* of `list` in turn: the first descriptor declared under each lowercased name.
RegisteredByName(list) ==
    [n \in {Lower(list[i].name) : i \in 1..Len(list)} |->
        CHOOSE i \in 1..Len(list) :
            /\ Lower(list[i].name) = n
            /\ \A j \in 1..(i - 1) : Lower(list[j].name) # n]

\* AllDependenciesByName, as filled by Dependency.__init__ on the running platform.
AllDependenciesByName == RegisteredByName(AllDependencies)

\* Faulty variant: the stamp text without the script version.
FullVersionStringBare(versionString) == versionString

\* scriptVersion + ":" + versionString
FullVersionString(versionString) == scriptVersion \o <<":">> \o versionString

\* Faulty variant: a stamp written under any script version is accepted.
CheckVersionAnyScript(files, packageName, versionString) ==
    /\ packageName \in DOMAIN files
    /\ \E k \in 1..Len(files[packageName]) :
          /\ files[packageName][k] = ":"
          /\ SubSeq(files[packageName], k + 1, Len(files[packageName])) = versionString

\* CheckVersion, reading the stamp files `files`.
CheckVersionIn(files, packageName, versionString) ==
    IF packageName \notin DOMAIN files
    THEN FALSE
    ELSE files[packageName] = FullVersionString(versionString)

CheckVersion(packageName, versionString) ==
    CheckVersionIn(stamps, packageName, versionString)

\* The paths probed by Dependency.Exists, relative to the install root.
ProbePaths(d) ==
    {<<InstallFolder(d), AllDependencies[d].filesToCheck[i]>> :
        i \in 1..Len(AllDependencies[d].filesToCheck)}

\* Dependency.Exists
Exists(d) == ProbePaths(d) \subseteq instFiles

\* Faulty variant: the existence probe is not consulted.
IsUpToDateStampOnly(d) ==
    CheckVersion(AllDependencies[d].packageName, AllDependencies[d].versionString)

\* Dependency.IsUpToDate
IsUpToDate(d) ==
    IF ~Exists(d)
    THEN FALSE
    ELSE CheckVersion(AllDependencies[d].packageName, AllDependencies[d].versionString)

---------------------------------------------------------------------------
\* The install context.

\* The build variants of the command line and the build configurations.
BUILD_DEBUG == <<"D", "e", "b", "u", "g">>

BUILD_RELEASE == <<"R", "e", "l", "e", "a", "s", "e">>

BUILD_DEBUG_AND_RELEASE == <<"A", "l", "l">>

BUILD_RELWITHDEBINFO ==
    <<"R", "e", "l", "W", "i", "t", "h", "D", "e", "b", "I", "n", "f", "o">>

\* str.partition(","): <<head, separator, tail>>
Partition(s) ==
    IF \E i \in 1..Len(s) : s[i] = ","
    THEN LET k == CHOOSE i \in 1..Len(s) :
                      s[i] = "," /\ \A j \in 1..(i - 1) : s[j] # ","
         IN <<SubSeq(s, 1, k - 1), <<",">>, SubSeq(s, k + 1, Len(s))>>
    ELSE <<s, <<>>, <<>>>>

\* Faulty variant: a job count of zero is accepted.
ContextErrorNegativeJobs(a) ==
    \/ a.jobs < 0
    \/ \E i \in 1..Len(a.build_args) :
          \/ Partition(a.build_args[i])[1] = <<>>
          \/ Partition(a.build_args[i])[3] = <<>>
          \/ Lower(Partition(a.build_args[i])[1]) \notin DOMAIN AllDependenciesByName

\* The checks of InstallContext.__init__ that raise ValueError.
ContextError(a) ==
    \/ a.jobs <= 0
    \/ \E i \in 1..Len(a.build_args) :
          \/ Partition(a.build_args[i])[1] = <<>>
          \/ Partition(a.build_args[i])[3] = <<>>
          \/ Lower(Partition(a.build_args[i])[1]) \notin DOMAIN AllDependenciesByName

\* Faulty variant: the library name is not lowercased.
BuildArgsOfExact(list, key) ==
    LET F[i \in 0..Len(list)] ==
            IF i = 0 THEN <<>>
            ELSE IF Partition(list[i])[1] = key
                 THEN Append(F[i - 1], Partition(list[i])[3])
                 ELSE F[i - 1]
    IN F[Len(list)]

\* self.buildArgs.setdefault(depName.lower(), []).append(arg), for every argument
BuildArgsOf(list, key) ==
    LET F[i \in 0..Len(list)] ==
            IF i = 0 THEN <<>>
            ELSE IF Lower(Partition(list[i])[1]) = key
                 THEN Append(F[i - 1], Partition(list[i])[3])
                 ELSE F[i - 1]
    IN F[Len(list)]

\* InstallContext.__init__
InstallContext(a) ==
    LET debug ==
            a.build_variant = BUILD_DEBUG \/ a.build_variant = BUILD_DEBUG_AND_RELEASE
        release ==
            a.build_variant = BUILD_RELEASE \/ a.build_variant = BUILD_DEBUG_AND_RELEASE
        relWithDebInfo == a.build_variant = BUILD_RELWITHDEBINFO
    IN [constructed |-> TRUE,
        numJobs |-> a.jobs,
        buildArgs |->
            [k \in {Lower(Partition(a.build_args[i])[1]) : i \in 1..Len(a.build_args)}
                |-> BuildArgsOf(a.build_args, k)],
        buildDebug |-> debug,
        buildRelease |-> release,
        buildRelWithDebInfo |-> relWithDebInfo,
        buildConfigs |->
            (IF release THEN <<BUILD_RELEASE>> ELSE <<>>)
            \o (IF debug THEN <<BUILD_DEBUG>> ELSE <<>>)
            \o (IF relWithDebInfo THEN <<BUILD_RELWITHDEBINFO>> ELSE <<>>),
        forceBuildAll |-> a.force_all,
        forceBuild |-> [i \in 1..Len(a.force_build) |-> Lower(a.force_build[i])]]

\* InstallContext.GetBuildArguments
GetBuildArguments(d) ==
    IF Lower(AllDependencies[d].name) \in DOMAIN context.buildArgs
    THEN context.buildArgs[Lower(AllDependencies[d].name)]
    ELSE <<>>

\* Faulty variant: every dependency counts as forced.
ForceBuildDependencyAlways(d) == TRUE

\* Faulty variant: the name is compared without lowercasing it.
ForceBuildDependencyExact(d) ==
    context.forceBuildAll \/ InList(AllDependencies[d].name, context.forceBuild)

\* InstallContext.ForceBuildDependency
ForceBuildDependency(d) ==
    context.forceBuildAll \/ InList(Lower(AllDependencies[d].name), context.forceBuild)

\* BuildConfigs(context)
BuildConfigs ==
    (IF context.buildDebug THEN <<BUILD_DEBUG>> ELSE <<>>)
    \o (IF context.buildRelease THEN <<BUILD_RELEASE>> ELSE <<>>)
    \o (IF context.buildRelWithDebInfo THEN <<BUILD_RELWITHDEBINFO>> ELSE <<>>)

---------------------------------------------------------------------------
\* The required dependencies and the staleness check.

\* list.remove(x): drops the first occurrence
ListRemove(list, x) ==
    LET k == CHOOSE i \in 1..Len(list) : list[i] = x /\ \A j \in 1..(i - 1) : list[j] # x
    IN SubSeq(list, 1, k - 1) \o SubSeq(list, k + 1, Len(list))

\* The list literal of the script.
FullRequiredDependencies ==
    <<Idx.ZLIB, Idx.JPEG, Idx.TIFF, Idx.PNG, Idx.GLM, Idx.STB, Idx.TINYGLTF,
      Idx.TINYOBJLOADER, Idx.BOOST, Idx.TBB, Idx.OPENEXR, Idx.OPENIMAGEIO,
      Idx.MATERIALX, Idx.OPENSUBDIV, Idx.USD, Idx.SLANG, Idx.GLEW, Idx.GLFW,
      Idx.CXXOPTS, Idx.GTEST>>

\* Faulty variant: GoogleTest is not excluded.
LinuxExcludesButGTest ==
    <<Idx.ZLIB, Idx.JPEG, Idx.TIFF, Idx.PNG, Idx.GLM, Idx.GLEW, Idx.GLFW>>

\* excludes = [ZLIB, JPEG, TIFF, PNG, GLM, GLEW, GLFW, GTEST]
LinuxExcludes ==
    <<Idx.ZLIB, Idx.JPEG, Idx.TIFF, Idx.PNG, Idx.GLM, Idx.GLEW, Idx.GLFW, Idx.GTEST>>

\* requiredDependencies on each platform: on Linux, after
\* "for lib in excludes: requiredDependencies.remove(lib)"
RequiredDependenciesOn[system \in {"Windows", "Linux"}] ==
    LET F[i \in 0..Len(LinuxExcludes)] ==
            IF i = 0 THEN FullRequiredDependencies
            ELSE ListRemove(F[i - 1], LinuxExcludes[i])
    IN IF system = "Linux" THEN F[Len(LinuxExcludes)] ELSE FullRequiredDependencies

requiredDependencies == RequiredDependenciesOn[platform]

\* The loop that fills dependenciesToBuild, from position i of the required
\* list on, with the list built so far.
RECURSIVE ScheduleFrom(_, _)
ScheduleFrom(i, built) ==
    IF i > Len(requiredDependencies)
    THEN built
    ELSE LET dep == requiredDependencies[i]
         IN IF ForceBuildDependency(dep) \/ ~IsUpToDate(dep)
            THEN IF ~InList(dep, built)
                 THEN ScheduleFrom(i + 1, Append(built, dep))
                 ELSE ScheduleFrom(i + 1, built)
            ELSE ScheduleFrom(i + 1, built)

\* Faulty variant: what is to be built is put in the order of declaration.
ComputeDependenciesToBuildDeclared ==
    LET built == ScheduleFrom(1, <<>>)
        F[i \in 0..Len(AllDependencies)] ==
            IF i = 0 THEN <<>>
            ELSE IF InList(i, built) THEN Append(F[i - 1], i) ELSE F[i - 1]
    IN F[Len(AllDependencies)]

ComputeDependenciesToBuild == ScheduleFrom(1, <<>>)

---------------------------------------------------------------------------
\* Preflight.

\* Faulty variant: only the first components are compared.
TupleLessMajor(a, b) == a[1] < b[1]

\* Python's tuple comparison a < b
TupleLess(a, b) ==
    \/ \E k \in 1..Len(a) :
          /\ k <= Len(b)
          /\ a[k] < b[k]
          /\ \A j \in 1..(k - 1) : a[j] = b[j]
    \/ /\ Len(a) < Len(b)
       /\ \A j \in 1..Len(a) : a[j] = b[j]

\* cmake_required_version = (3, 21)
cmake_required_version == <<3, 21>>

\* The toolchain checks that end the run with sys.exit(1).
PreflightFails ==
    \/ ~env.compiler
    \/ ~env.cmake
    \/ env.cmake_version = <<>>
    \/ TupleLess(env.cmake_version, cmake_required_version)
    \/ /\ InList(Idx.JPEG, requiredDependencies)
       /\ platform = "Windows"
       /\ ~env.nasm

---------------------------------------------------------------------------
\* Command lines and machines the model runs the installer with.

BOOST_UPPER == <<"B", "O", "O", "S", "T">>

DefaultArgs ==
    [dry_run |-> FALSE, force_build |-> <<>>, force_all |-> FALSE, jobs |-> 8,
     build_args |-> <<>>, build_variant |-> BUILD_RELEASE]

ArgChoices ==
    {DefaultArgs,
     [DefaultArgs EXCEPT !.force_build = <<BOOST_UPPER>>],
     [DefaultArgs EXCEPT !.force_build = <<<<"u", "S", "d">>, <<"n", "o", "n", "e">>,
                                           <<"Z", "L", "I", "B">>>>],
     [DefaultArgs EXCEPT !.force_build = <<<<"n", "r", "d">>>>],
     [DefaultArgs EXCEPT !.force_all = TRUE],
     [DefaultArgs EXCEPT !.dry_run = TRUE],
     [DefaultArgs EXCEPT !.jobs = 0],
     [DefaultArgs EXCEPT !.build_variant = BUILD_DEBUG_AND_RELEASE,
                         !.build_args = <<BOOST_UPPER \o <<",", "cxxflags=-O3">>,
                                          <<"U", "S", "D", ",", "-DPXR_STRICT_BUILD_MODE=ON">>,
                                          <<"b", "o", "o", "s", "t", ",", "-d2">>,
                                          <<"Z", "l", "i", "b", ",", "-DZLIB_X=1">>>>],
     [DefaultArgs EXCEPT !.build_args = <<<<"u", "n", "k", "n", "o", "w", "n", "l", "i", "b",
                                            ",", "foo=bar">>>>],
     [DefaultArgs EXCEPT !.build_args = <<<<"b", "o", "o", "s", "t">>>>],
     [DefaultArgs EXCEPT !.build_args = <<<<"b", "o", "o", "s", "t", ",", "-d2">>,
                                          <<",", "foo=bar">>>>],
     [DefaultArgs EXCEPT !.build_args = <<<<"b", "o", "o", "s", "t", ",">>>>],
     [DefaultArgs EXCEPT !.jobs = -1]}

GoodEnv ==
    [compiler |-> TRUE, cmake |-> TRUE, cmake_version |-> <<3, 22, 1>>, nasm |-> TRUE,
     badDir |-> "none"]

EnvChoices ==
    {GoodEnv,
     [GoodEnv EXCEPT !.compiler = FALSE],
     [GoodEnv EXCEPT !.cmake = FALSE, !.cmake_version = <<>>],
     [GoodEnv EXCEPT !.cmake_version = <<>>],
     [GoodEnv EXCEPT !.cmake_version = <<3, 20, 5>>],
     [GoodEnv EXCEPT !.cmake_version = <<3, 21>>],
     [GoodEnv EXCEPT !.nasm = FALSE],
     [GoodEnv EXCEPT !.badDir = "src"]}

\* A run is launched with any command line on a good machine, or with the
\* default command line on any machine.
Scenarios ==
    {<<a, GoodEnv>> : a \in ArgChoices} \cup {<<DefaultArgs, e>> : e \in EnvChoices}

ScriptVersions == {<<"0", "0", "0", "0", "1">>, <<"0", "0", "0", "0", "2">>}

---------------------------------------------------------------------------
\* The installer script, step by step.

\* No call of DownloadURL made yet, the source directory empty.
NoDownload ==
    [pc |-> "none", calls |-> 0,
     call |-> [url |-> <<>>, force |-> FALSE,
               extractDir |-> [given |-> FALSE, value |-> <<>>],
               dontExtract |-> [given |-> FALSE, value |-> <<>>],
               destDir |-> [given |-> FALSE, value |-> <<>>]],
     filename |-> <<>>, attempts |-> 0, errors |-> <<>>, message |-> <<>>,
     archive |-> [kind |-> "unopened"], rootDir |-> <<>>, selected |-> <<>>,
     extracted |-> 0, created |-> FALSE, found |-> FALSE, before |-> {},
     files |-> <<>>, trees |-> <<>>]

\* No call of GitClone or GitCloneSHA made yet, no folder in the source
\* directory.
NoClone ==
    [pc |-> "none", calls |-> 0,
     call |-> [variant |-> "GitClone", url |-> "", ref |-> "", cloneDir |-> ""],
     folders |-> <<>>, commands |-> <<>>, error |-> "",
     existed |-> FALSE, before |-> [git |-> FALSE, head |-> "", files |-> {}]]

\* What os.path.exists and os.stat tell of a path that is not there, and of a
\* file with its modification time and content.
Absent == [exists |-> FALSE, mtime |-> 0, data |-> ""]

Present(mtime, data) == [exists |-> TRUE, mtime |-> mtime, data |-> data]

\* The copy_file calls of deployHdAurora.py, in order.
Artifacts ==
    <<[src |-> "resources", dst |-> "plugin/usd/hdAurora/resources", name |-> "plugInfo.json"],
      [src |-> "bin", dst |-> "plugin/usd", name |-> "hdAurora.dll"],
      [src |-> "bin", dst |-> "plugin/usd", name |-> "hdAurora.pdb"],
      [src |-> "bin", dst |-> "lib", name |-> "Aurora.dll"],
      [src |-> "bin", dst |-> "lib", name |-> "Aurora.pdb"],
      [src |-> "bin", dst |-> "lib", name |-> "d3dcompiler_47.dll"],
      [src |-> "bin", dst |-> "lib", name |-> "dxcompiler.dll"],
      [src |-> "bin", dst |-> "lib", name |-> "dxil.dll"],
      [src |-> "bin", dst |-> "lib", name |-> "slang.dll"],
      [src |-> "bin", dst |-> "lib", name |-> "msvcp140.dll"],
      [src |-> "bin", dst |-> "lib", name |-> "glew32.dll"]>>

\* deployHdAurora.py not run yet: nothing built in the renderer's tree, the
\* host tree empty.
NoDeploy ==
    [pc |-> "none", runs |-> 0, rebuilds |-> 0,
     call |-> [build |-> FALSE, usdPaths |-> 1],
     step |-> 1, steps |-> <<>>, exit |-> "",
     src |-> [i \in 1..Len(Artifacts) |-> Absent],
     dst |-> [i \in 1..Len(Artifacts) |-> Absent],
     hostDirs |-> {}, mtlxSrc |-> <<>>, mtlxDst |-> <<>>,
     processed |-> <<>>, notices |-> <<>>, copies |-> <<>>, mtlxCopies |-> {},
     before |-> [dst |-> [i \in 1..Len(Artifacts) |-> Absent], hostDirs |-> {},
                 mtlxDst |-> <<>>]]

\* minifyShaders.py not run yet, no header written.
NoMinify ==
    [pc |-> "none", words |-> <<>>, argv |-> <<>>, outputFileCount |-> 0, outputFileIdx |-> 0,
     ouputHeaderFiles |-> <<>>, dxcDefines |-> <<>>, commands |-> <<>>,
     preprocessed |-> <<>>, headers |-> <<>>, printed |-> <<>>, status |-> <<>>]

\* No installer process started yet.
NoProc ==
    [pc |-> "none", schedule |-> <<>>, buildConfigs |-> <<>>, force |-> FALSE, k |-> 0,
     prog |-> <<>>, ip |-> 0, cwd |-> <<>>, startDir |-> <<>>, frames |-> <<>>,
     left |-> <<>>, starts |-> <<>>, logs |-> <<>>, cmakePrefixPaths |-> {},
     prefixBefore |-> {}, commands |-> <<>>, exits |-> <<>>, returned |-> <<>>,
     raises |-> <<>>, warnings |-> <<>>, error |-> <<>>, status |-> <<>>,
     earlier |-> FALSE, removed |-> {}, cmakeGenerator |-> "", numJobs |-> 0,
     userGenerator |-> "", userJobs |-> 0, handlers |-> <<>>, contexts |-> <<>>]

\* No source tree extracted yet.
NoPatch ==
    [pc |-> "none", original |-> <<>>, file |-> <<>>, backup |-> <<>>, calls |-> 0,
     writes |-> <<>>]

\* No run came directly before this one.
NoPrevious == [run |-> FALSE, raised |-> <<>>, installed |-> {}, current |-> {}]

Idle == pc \in {"idle", "exited"}

Exit(status) ==
    /\ pc' = "exited"
    /\ exitCode' = <<status>>

\* The script is started: args = parser.parse_args().
Launch(a, e) ==
    /\ Idle
    /\ runs < MaxRuns
    /\ runs' = runs + 1
    /\ args' = a
    /\ env' = e
    /\ pc' = "construct"
    /\ exitCode' = <<>>
    /\ context' = [constructed |-> FALSE]
    /\ scheduled' = FALSE
    /\ dependenciesToBuild' = <<>>
    /\ loopIdx' = 1
    /\ invoked' = <<>>
    /\ raised' = <<>>
    /\ stampWrites' = <<>>
    /\ configWrites' = 0
    /\ effects' = {}
    /\ startFiles' = instFiles
    /\ startStamps' = stamps
    /\ previous' = IF pc = "exited"
                   THEN [run |-> TRUE, raised |-> raised,
                         installed |-> {invoked[i].dep : i \in 1..Len(invoked)}
                                           \ {raised[i] : i \in 1..Len(raised)},
                         current |-> {d \in {raised[i] : i \in 1..Len(raised)} :
                                         CheckVersionIn(startStamps,
                                                        AllDependencies[d].packageName,
                                                        AllDependencies[d].versionString)}]
                   ELSE NoPrevious
    /\ UNCHANGED <<platform, scriptVersion, dirs, instFiles, stamps, configFile,
                   disturbances, toolVars>>

\* try: context = InstallContext(args) except: PrintError; sys.exit(1)
ConstructContext ==
    /\ pc = "construct"
    /\ IF ContextError(args)
       THEN /\ Exit(1)
            /\ UNCHANGED context
       ELSE /\ context' = InstallContext(args)
            /\ pc' = "schedule"
            /\ UNCHANGED exitCode
    /\ UNCHANGED <<scheduled, platform, scriptVersion, dirs, instFiles, stamps, configFile, args,
                   env, dependenciesToBuild, loopIdx, startFiles, startStamps, invoked,
                   raised, stampWrites, configWrites, effects, runs, previous, disturbances, toolVars>>

\* requiredDependencies and dependenciesToBuild are computed.
ScheduleDependencies ==
    /\ pc = "schedule"
    /\ startFiles' = instFiles
    /\ startStamps' = stamps
    /\ scheduled' = TRUE
    /\ dependenciesToBuild' = ComputeDependenciesToBuild
    /\ pc' = "preflight"
    /\ UNCHANGED <<platform, scriptVersion, dirs, instFiles, stamps, configFile, args,
                   env, context, loopIdx, exitCode, invoked, raised, stampWrites,
                   configWrites, effects, runs, previous, disturbances, toolVars>>

\* Verify toolchain needed to build required dependencies.
Preflight ==
    /\ pc = "preflight"
    /\ IF PreflightFails
       THEN Exit(1)
       ELSE pc' = "summary" /\ UNCHANGED exitCode
    /\ UNCHANGED <<scheduled, platform, scriptVersion, dirs, instFiles, stamps, configFile, args,
                   env, context, dependenciesToBuild, loopIdx, startFiles, startStamps,
                   invoked, raised, stampWrites, configWrites, effects, runs, previous,
                   disturbances, toolVars>>

\* The directories the loop "Ensure directory structure is created and is
\* writable" handles without error, in order, before the one it fails on.
DirOrder == <<"inst", "src", "build">>

DirsHandled ==
    IF env.badDir = "none"
    THEN {DirOrder[i] : i \in 1..Len(DirOrder)}
    ELSE {DirOrder[i] : i \in {j \in 1..Len(DirOrder) :
                                  \A k \in 1..j : DirOrder[k] # env.badDir}}

\* Faulty variant: the dry run ends after the directories are created.
DryRunAfterDirectories ==
    /\ pc = "summary"
    /\ dirs' = dirs \cup DirsHandled
    /\ effects' = effects \cup {<<"makedirs", x>> : x \in DirsHandled \ dirs}
    /\ IF env.badDir # "none"
       THEN Exit(1)
       ELSE IF args.dry_run
            THEN Exit(0)
            ELSE pc' = "install" /\ UNCHANGED exitCode
    /\ UNCHANGED <<scheduled, platform, scriptVersion, instFiles, stamps, configFile, args, env,
                   context, dependenciesToBuild, loopIdx, startFiles, startStamps,
                   invoked, raised, stampWrites, configWrites, runs, previous, disturbances, toolVars>>

\* if args.dry_run: sys.exit(0); then the directories are created.
DryRunOrDirectories ==
    /\ pc = "summary"
    /\ IF args.dry_run
       THEN /\ Exit(0)
            /\ UNCHANGED <<dirs, effects>>
       ELSE /\ dirs' = dirs \cup DirsHandled
            /\ effects' = effects \cup {<<"makedirs", x>> : x \in DirsHandled \ dirs}
            /\ IF env.badDir # "none"
               THEN Exit(1)
               ELSE pc' = "install" /\ UNCHANGED exitCode
    /\ UNCHANGED <<scheduled, platform, scriptVersion, instFiles, stamps, configFile, args, env,
                   context, dependenciesToBuild, loopIdx, startFiles, startStamps,
                   invoked, raised, stampWrites, configWrites, runs, previous, disturbances, toolVars>>

\* The call dep.installer(context, buildArgs=..., force=...) of the loop.
InstallerCall(d) ==
    [dep |-> d, buildArgs |-> GetBuildArguments(d), force |-> ForceBuildDependency(d)]

\* UpdateVersion: the stamp is left alone when it already matches.
UpdateVersion(packageName, versionString) ==
    IF CheckVersion(packageName, versionString)
    THEN UNCHANGED <<stamps, stampWrites>>
    ELSE /\ stamps' = [p \in DOMAIN stamps \cup {packageName} |->
                          IF p = packageName
                          THEN FullVersionString(versionString)
                          ELSE stamps[p]]
         /\ stampWrites' = Append(stampWrites,
                                  <<packageName, FullVersionString(versionString)>>)

\* Faulty variant: the installer returns and no stamp is written.
InstallSucceedsUnstamped ==
    /\ pc = "install"
    /\ loopIdx <= Len(dependenciesToBuild)
    /\ LET d == dependenciesToBuild[loopIdx]
       IN /\ invoked' = Append(invoked, InstallerCall(d))
          /\ instFiles' = instFiles \cup ProbePaths(d)
    /\ loopIdx' = loopIdx + 1
    /\ UNCHANGED <<scheduled, platform, scriptVersion, dirs, stamps, configFile, pc, args, env,
                   context, dependenciesToBuild, exitCode, startFiles, startStamps, raised,
                   stampWrites, configWrites, effects, runs, previous, disturbances, toolVars>>

\* One pass of the install loop whose installer returns: the installer has put
\* the library's files, the probed ones among them, under its install folder;
\* dep.UpdateVersion(context) follows.
InstallSucceeds ==
    /\ pc = "install"
    /\ loopIdx <= Len(dependenciesToBuild)
    /\ LET d == dependenciesToBuild[loopIdx]
       IN /\ invoked' = Append(invoked, InstallerCall(d))
          /\ instFiles' = instFiles \cup ProbePaths(d)
          /\ UpdateVersion(AllDependencies[d].packageName,
                           AllDependencies[d].versionString)
    /\ loopIdx' = loopIdx + 1
    /\ UNCHANGED <<scheduled, platform, scriptVersion, dirs, configFile, pc, args, env, context,
                   dependenciesToBuild, exitCode, startFiles, startStamps, raised,
                   configWrites, effects, runs, previous, disturbances, toolVars>>

\* What a failing installer may leave of the probed files: it may fail before
\* touching the install folder, after installing headers, or after removing
\* the previous install (CopyDirectory removes the destination first).
PartialInstall(d, leaves) ==
    CASE leaves = "unchanged" -> instFiles
      [] leaves = "present" -> instFiles \cup ProbePaths(d)
      [] leaves = "absent" -> instFiles \ ProbePaths(d)

\* os.path.join(context.externalsInstDir, config, BOOST_VERSION_FILE)
BoostVersionHeaders ==
    {<<BuildConfigs[i], AllDependencies[Idx.BOOST].filesToCheck[1]>> :
        i \in 1..Len(BuildConfigs)}

\* The handler of InstallBoost: the version header is removed for every config.
InstallerCleanup(d, files) ==
    IF d = Idx.BOOST THEN files \ BoostVersionHeaders ELSE files

\* Faulty variant: the error is reported and the loop goes on.
InstallFailsContinues(leaves) ==
    /\ pc = "install"
    /\ loopIdx <= Len(dependenciesToBuild)
    /\ LET d == dependenciesToBuild[loopIdx]
       IN /\ invoked' = Append(invoked, InstallerCall(d))
          /\ raised' = <<d>>
          /\ instFiles' = InstallerCleanup(d, PartialInstall(d, leaves))
    /\ loopIdx' = loopIdx + 1
    /\ UNCHANGED <<scheduled, platform, scriptVersion, dirs, stamps, configFile, pc, args, env,
                   context, dependenciesToBuild, exitCode, startFiles, startStamps,
                   stampWrites, configWrites, effects, runs, previous, disturbances, toolVars>>

\* Faulty variant: a failing installer takes the stamp of its library away.
InstallFailsUnstamping(leaves) ==
    /\ pc = "install"
    /\ loopIdx <= Len(dependenciesToBuild)
    /\ LET d == dependenciesToBuild[loopIdx]
       IN /\ invoked' = Append(invoked, InstallerCall(d))
          /\ raised' = <<d>>
          /\ instFiles' = InstallerCleanup(d, PartialInstall(d, leaves))
          /\ stamps' = [p \in DOMAIN stamps \ {AllDependencies[d].packageName} |-> stamps[p]]
    /\ Exit(1)
    /\ UNCHANGED <<scheduled, platform, scriptVersion, dirs, configFile, args, env,
                   context, dependenciesToBuild, loopIdx, startFiles, startStamps,
                   stampWrites, configWrites, effects, runs, previous, disturbances, toolVars>>

\* One pass of the install loop whose installer raises: PrintError, sys.exit(1).
InstallFails(leaves) ==
    /\ pc = "install"
    /\ loopIdx <= Len(dependenciesToBuild)
    /\ LET d == dependenciesToBuild[loopIdx]
       IN /\ invoked' = Append(invoked, InstallerCall(d))
          /\ raised' = <<d>>
          /\ instFiles' = InstallerCleanup(d, PartialInstall(d, leaves))
    /\ Exit(1)
    /\ UNCHANGED <<scheduled, platform, scriptVersion, dirs, stamps, configFile, args, env,
                   context, dependenciesToBuild, loopIdx, startFiles, startStamps,
                   stampWrites, configWrites, effects, runs, previous, disturbances, toolVars>>

\* The text WriteExternalsConfig writes: one block per external, in order.
ExternalsConfigText(externals) ==
    [i \in 1..Len(externals) |->
        [packageName |-> AllDependencies[externals[i]].packageName,
         installFolder |-> InstallFolder(externals[i])]]

\* The part of the header that varies: ";".join(context.buildConfigs), written
\* on Windows only.
ExternalsConfigHeader == IF platform = "Windows" THEN context.buildConfigs ELSE <<>>

\* Faulty variant: the file is opened for appending and lists what was built.
WriteExternalsConfigAppend ==
    /\ pc = "install"
    /\ loopIdx > Len(dependenciesToBuild)
    /\ configFile' = [exists |-> TRUE,
                      header |-> configFile.header \o ExternalsConfigHeader,
                      packages |-> configFile.packages
                                   \o ExternalsConfigText(dependenciesToBuild)]
    /\ configWrites' = configWrites + 1
    /\ Exit(0)
    /\ UNCHANGED <<scheduled, platform, scriptVersion, dirs, instFiles, stamps, args, env, context,
                   dependenciesToBuild, loopIdx, startFiles, startStamps, invoked,
                   raised, stampWrites, effects, runs, previous, disturbances, toolVars>>

\* WriteExternalsConfig(context, requiredDependencies), after the loop; the
\* file is opened with "w"; the script then ends with status 0.
WriteExternalsConfig ==
    /\ pc = "install"
    /\ loopIdx > Len(dependenciesToBuild)
    /\ configFile' = [exists |-> TRUE, header |-> ExternalsConfigHeader,
                      packages |-> ExternalsConfigText(requiredDependencies)]
    /\ configWrites' = configWrites + 1
    /\ Exit(0)
    /\ UNCHANGED <<scheduled, platform, scriptVersion, dirs, instFiles, stamps, args, env, context,
                   dependenciesToBuild, loopIdx, startFiles, startStamps, invoked,
                   raised, stampWrites, effects, runs, previous, disturbances, toolVars>>

---------------------------------------------------------------------------
\* Changes made to the install tree and to the script between two runs.

\* The libraries whose files are changed between runs.
DisturbedDependencies == {Idx.STB, Idx.BOOST}

\* A change is made while no run is in progress; what the last run left is
\* no longer what is on disk, so the script's position goes back to "idle".
Disturbable ==
    /\ Idle
    /\ runs < MaxRuns
    /\ disturbances < MaxDisturbances
    /\ disturbances' = disturbances + 1
    /\ pc' = "idle"

\* A probed file of an installed library is deleted.
RemoveProbeFile(d) ==
    /\ Disturbable
    /\ ProbePaths(d) \subseteq instFiles
    /\ instFiles' = instFiles \ ProbePaths(d)
    /\ UNCHANGED <<scheduled, platform, scriptVersion, dirs, stamps, configFile, args, env,
                   context, dependenciesToBuild, loopIdx, exitCode, startFiles,
                   startStamps, invoked, raised, stampWrites, configWrites, effects,
                   runs, previous, toolVars>>

\* The texts a stamp file may hold that no run of this script version wrote
\* for this library: the stamp of another release of the library, and the
\* right text followed by a line break.
ForeignStamps(p) ==
    IF p \in DOMAIN stamps
    THEN {FullVersionString(<<"https:", "/", "/", "example.org", "/", "old.zip">>),
          stamps[p] \o <<"\n">>}
    ELSE {}

\* A stamp file is replaced or deleted.
ChangeStamp(p, text) ==
    /\ Disturbable
    /\ p \in DOMAIN stamps
    /\ stamps' = IF text = <<>>
                 THEN [q \in DOMAIN stamps \ {p} |-> stamps[q]]
                 ELSE [stamps EXCEPT ![p] = text]
    /\ UNCHANGED <<scheduled, platform, scriptVersion, dirs, instFiles, configFile, args, env,
                   context, dependenciesToBuild, loopIdx, exitCode, startFiles,
                   startStamps, invoked, raised, stampWrites, configWrites, effects,
                   runs, previous, toolVars>>

\* "Script version, incrementing this will force re-installation of all
\* packages": the constant is edited.
EditScriptVersion(v) ==
    /\ Disturbable
    /\ v # scriptVersion
    /\ scriptVersion' = v
    /\ UNCHANGED <<scheduled, platform, dirs, instFiles, stamps, configFile, args, env,
                   context, dependenciesToBuild, loopIdx, exitCode, startFiles,
                   startStamps, invoked, raised, stampWrites, configWrites, effects,
                   runs, previous, toolVars>>

---------------------------------------------------------------------------
\* The installer's specification: runs of the script on one install tree,
\* starting with an empty tree.

InstallerInit ==
    /\ platform \in {"Windows", "Linux"}
    /\ scriptVersion = <<"0", "0", "0", "0", "1">>
    /\ dirs = {}
    /\ instFiles = {}
    /\ stamps = <<>>
    /\ configFile = [exists |-> FALSE, header |-> <<>>, packages |-> <<>>]
    /\ pc = "idle"
    /\ args = DefaultArgs
    /\ env = GoodEnv
    /\ context = [constructed |-> FALSE]
    /\ scheduled = FALSE
    /\ dependenciesToBuild = <<>>
    /\ loopIdx = 1
    /\ exitCode = <<>>
    /\ startFiles = {}
    /\ startStamps = <<>>
    /\ invoked = <<>>
    /\ raised = <<>>
    /\ stampWrites = <<>>
    /\ configWrites = 0
    /\ effects = {}
    /\ runs = 0
    /\ previous = NoPrevious
    /\ disturbances = 0

Init ==
    /\ InstallerInit
    /\ dl = NoDownload
    /\ clone = NoClone
    /\ deploy = NoDeploy
    /\ minify = NoMinify
    /\ proc = NoProc
    /\ patch = NoPatch

Next ==
    \/ \E s \in Scenarios : Launch(s[1], s[2])
    \/ ConstructContext
    \/ ScheduleDependencies
    \/ Preflight
    \/ DryRunOrDirectories
    \/ InstallSucceeds
    \/ \E leaves \in {"unchanged", "present", "absent"} : InstallFails(leaves)
    \/ WriteExternalsConfig
    \/ \E d \in DisturbedDependencies : RemoveProbeFile(d)
    \/ \E d \in DisturbedDependencies :
          \E text \in ForeignStamps(AllDependencies[d].packageName) \cup {<<>>} :
              ChangeStamp(AllDependencies[d].packageName, text)
    \/ \E v \in ScriptVersions : EditScriptVersion(v)

Spec == Init /\ [][Next]_vars

\* The install tree a complete run with the default options leaves: the
\* directories, the probed files and the stamp of every required dependency,
\* and externalsConfig.cmake.
InstalledFiles[system \in {"Windows", "Linux"}] ==
    UNION {{<<DeclaredDependencies[system][RequiredDependenciesOn[system][k]].name,
              DeclaredDependencies[system][RequiredDependenciesOn[system][k]].filesToCheck[i]>> :
               i \in 1..Len(DeclaredDependencies[system][RequiredDependenciesOn[system][k]].filesToCheck)} :
           k \in 1..Len(RequiredDependenciesOn[system])}

InstalledStamps[system \in {"Windows", "Linux"}] ==
    [p \in {DeclaredDependencies[system][RequiredDependenciesOn[system][k]].packageName :
                k \in 1..Len(RequiredDependenciesOn[system])} |->
        LET d == CHOOSE d \in 1..Len(DeclaredDependencies[system]) :
                     DeclaredDependencies[system][d].packageName = p
        IN <<"0", "0", "0", "0", "1">> \o <<":">>
               \o DeclaredDependencies[system][d].versionString]

\* Runs of the script on a tree that an earlier complete run has filled.
InitRerun ==
    /\ platform \in {"Windows", "Linux"}
    /\ scriptVersion = <<"0", "0", "0", "0", "1">>
    /\ dirs = {"inst", "src", "build"}
    /\ instFiles = InstalledFiles[platform]
    /\ stamps = InstalledStamps[platform]
    /\ configFile = [exists |-> TRUE,
                     header |-> IF platform = "Windows" THEN <<BUILD_RELEASE>> ELSE <<>>,
                     packages |-> ExternalsConfigText(requiredDependencies)]
    /\ pc = "idle"
    /\ args = DefaultArgs
    /\ env = GoodEnv
    /\ context = [constructed |-> FALSE]
    /\ scheduled = FALSE
    /\ dependenciesToBuild = <<>>
    /\ loopIdx = 1
    /\ exitCode = <<>>
    /\ startFiles = {}
    /\ startStamps = <<>>
    /\ invoked = <<>>
    /\ raised = <<>>
    /\ stampWrites = <<>>
    /\ configWrites = 0
    /\ effects = {}
    /\ runs = 0
    /\ previous = NoPrevious
    /\ disturbances = 0
    /\ dl = NoDownload
    /\ clone = NoClone
    /\ deploy = NoDeploy
    /\ minify = NoMinify
    /\ proc = NoProc
    /\ patch = NoPatch

SpecRerun == InitRerun /\ [][Next]_vars

---------------------------------------------------------------------------
\* DownloadURL: one call after another on the same source directory.  The
\* operations of the file system succeed; what fails is the downloader and
\* the archive (its type, its listing, the extraction of a member, a root
\* directory it does not hold).  A call may also be interrupted at any step.

\* Calls of DownloadURL in one behaviour.
MaxCalls == 2

\* maxRetries = 5
maxRetries == 5

\* Position of the first "/" of s at or after position i, 0 if there is none.
RECURSIVE FindSlash(_, _)
FindSlash(s, i) ==
    IF i > Len(s) THEN 0
    ELSE IF s[i] = "/" THEN i
    ELSE FindSlash(s, i + 1)

\* str.split("/")
RECURSIVE Split(_)
Split(s) ==
    LET k == FindSlash(s, 1)
    IN IF k = 0
       THEN <<s>>
       ELSE <<SubSeq(s, 1, k - 1)>> \o Split(SubSeq(s, k + 1, Len(s)))

\* fnmatch.fnmatch(name, pat): "*" matches any run of text.
RECURSIVE Fnmatch(_, _)
Fnmatch(name, pat) ==
    IF pat = <<>> THEN name = <<>>
    ELSE IF Head(pat) = "*"
         THEN \E k \in 0..Len(name) : Fnmatch(SubSeq(name, k + 1, Len(name)), Tail(pat))
         ELSE /\ name # <<>>
              /\ Head(name) = Head(pat)
              /\ Fnmatch(Tail(name), Tail(pat))

\* The dontExtract list of InstallBoost_Helper.
BoostDontExtract ==
    <<<<"*", "/", "doc", "/", "*">>,
      <<"*", "/", "libs", "/", "*", "/", "doc", "/", "*">>,
      <<"*", "/", "libs", "/", "wave", "/", "test", "/", "testwave", "/", "testfiles",
        "/", "utf8-test-", "*">>>>

None == [given |-> FALSE, value |-> <<>>]

Some(v) == [given |-> TRUE, value |-> v]

\* The calls of DownloadURL made by the installers of zlib (unforced and
\* forced), Boost, TBB on Windows and Slang.
CallChoices ==
    {[url |-> AllDependencies[Idx.ZLIB].versionString, force |-> f,
      extractDir |-> None, dontExtract |-> None, destDir |-> None] : f \in BOOLEAN}
    \cup
    {[url |-> AllDependencies[Idx.BOOST].versionString, force |-> FALSE,
      extractDir |-> None, dontExtract |-> Some(BoostDontExtract), destDir |-> None],
     [url |-> DeclaredDependencies["Windows"][Idx.TBB].versionString, force |-> FALSE,
      extractDir |-> Some(<<"tbb2019_20190410oss">>), dontExtract |-> None,
      destDir |-> None],
     [url |-> AllDependencies[Idx.SLANG].versionString, force |-> FALSE,
      extractDir |-> None, dontExtract |-> None, destDir |-> Some(<<"Slang">>)]}

\* What a server may deliver: archives of either format, with one root
\* directory or not, an archive whose third member cannot be extracted, an
\* archive without members, and a file that is no archive.
ArchiveChoices ==
    {[kind |-> "zip", broken |-> 0,
      names |-> <<<<"pkg", "/">>, <<"pkg", "/", "a.h">>,
                  <<"pkg", "/", "doc", "/", "index.html">>>>],
     [kind |-> "tar", broken |-> 0,
      names |-> <<<<"pkg">>, <<"pkg", "/", "a.h">>,
                  <<"pkg", "/", "doc", "/", "index.html">>>>],
     [kind |-> "zip", broken |-> 0,
      names |-> <<<<"tbb2019_20190410oss", "/", "include", "/", "tbb.h">>,
                  <<"LICENSE">>>>],
     [kind |-> "tar", broken |-> 3,
      names |-> <<<<"pkg">>, <<"pkg", "/", "a.h">>, <<"pkg", "/", "b.h">>,
                  <<"pkg", "/", "c.h">>>>],
     [kind |-> "tar", broken |-> 0, names |-> <<>>],
     [kind |-> "other", broken |-> 0, names |-> <<>>]}

\* The errors the downloader raises.
DownloadErrors == {"timed out", "SSL: CERTIFICATE_VERIFY_FAILED"}

\* filename = url.split("/")[-1]
UrlFilename(url) == Split(url)[Len(Split(url))]

TmpFilename(filename) == filename \o <<".tmp">>

BadFilename(filename) == filename \o <<".bad">>

\* extractedPath = os.path.abspath(destDir if destDir else rootDir)
ExtractedPath(d) ==
    IF d.call.destDir.given THEN d.call.destDir.value ELSE d.rootDir

\* Faulty variant: the archive is unpacked where the result is expected.
ScratchDirInPlace == ExtractedPath(dl)

\* tmpExtractedPath = os.path.abspath("extract_dir")
ScratchDir == <<"extract_dir">>

\* A function without the key k: os.remove, shutil.rmtree, the source of a move.
Without(f, k) == [x \in DOMAIN f \ {k} |-> f[x]]

\* A function with the key k set to v: a file or a directory written.
With(f, k, v) == [x \in DOMAIN f \cup {k} |-> IF x = k THEN v ELSE f[x]]

\* The part of DownloadURL before the retry loop: the forced removal of the
\* archive, the reuse of an archive that is there, the removal of a stale
\* temporary file.
DownloadBegin(c) ==
    /\ dl.pc \in {"none", "returned", "raised", "interrupted"}
    /\ dl.calls < MaxCalls
    /\ LET filename == UrlFilename(c.url)
           kept == IF c.force /\ filename \in DOMAIN dl.files
                   THEN Without(dl.files, filename)
                   ELSE dl.files
       IN dl' = [dl EXCEPT
                   !.calls = dl.calls + 1,
                   !.call = c,
                   !.filename = filename,
                   !.attempts = 0,
                   !.errors = <<>>,
                   !.message = <<>>,
                   !.archive = [kind |-> "unopened"],
                   !.rootDir = <<>>,
                   !.selected = <<>>,
                   !.extracted = 0,
                   !.created = FALSE,
                   !.found = FALSE,
                   !.before = {},
                   !.files = IF filename \in DOMAIN kept
                             THEN kept
                             ELSE Without(kept, TmpFilename(filename)),
                   !.pc = IF filename \in DOMAIN kept THEN "open" ELSE "download"]
    /\ UNCHANGED notDownload

\* One pass of the retry loop whose context.downloader(url, tmpFilename)
\* returns: the temporary file holds what the server delivered; break.
DownloadAttemptSucceeds(a) ==
    /\ dl.pc = "download"
    /\ dl.attempts < maxRetries
    /\ dl' = [dl EXCEPT
                !.attempts = dl.attempts + 1,
                !.files = With(dl.files, TmpFilename(dl.filename), a),
                !.pc = "rename"]
    /\ UNCHANGED notDownload

\* Faulty variant: the temporary file is copied, not moved.
RenameDownloadCopy ==
    /\ dl.pc = "rename"
    /\ dl' = [dl EXCEPT
                !.files = With(dl.files, dl.filename, dl.files[TmpFilename(dl.filename)]),
                !.pc = "open"]
    /\ UNCHANGED notDownload

\* shutil.move(tmpFilename, filename)
RenameDownload ==
    /\ dl.pc = "rename"
    /\ dl' = [dl EXCEPT
                !.files = With(Without(dl.files, TmpFilename(dl.filename)),
                               dl.filename, dl.files[TmpFilename(dl.filename)]),
                !.pc = "open"]
    /\ UNCHANGED notDownload

\* Faulty variant: the error of the first attempt is reported.
DownloadFailureFirst(url, errors) ==
    <<"Failed to download ">> \o url \o <<": ", errors[1]>>

\* RuntimeError("Failed to download {url}: {err}") with err = str(lastError)
DownloadFailure(url, errors) ==
    <<"Failed to download ">> \o url \o <<": ", errors[Len(errors)]>>

\* One pass of the retry loop whose downloader raises e, having written part
\* of the temporary file or nothing; after maxRetries passes the else clause
\* of the loop raises RuntimeError("Failed to download {url}: {err}").
DownloadAttemptFails(e, partial) ==
    /\ dl.pc = "download"
    /\ dl.attempts < maxRetries
    /\ dl' = [dl EXCEPT
                !.attempts = dl.attempts + 1,
                !.errors = Append(dl.errors, e),
                !.files = IF partial
                          THEN With(dl.files, TmpFilename(dl.filename), [kind |-> "partial"])
                          ELSE dl.files,
                !.message = IF dl.attempts + 1 = maxRetries
                            THEN DownloadFailure(dl.call.url, Append(dl.errors, e))
                            ELSE <<>>,
                !.pc = IF dl.attempts + 1 = maxRetries THEN "raised" ELSE "download"]
    /\ UNCHANGED notDownload

\* The members extractall is given: all of them, or those that match no
\* pattern of dontExtract.
SelectedMembers(a, c) ==
    IF c.dontExtract.given
    THEN SelectSeq(a.names,
                   LAMBDA m : ~\E i \in 1..Len(c.dontExtract.value) :
                                    Fnmatch(m, c.dontExtract.value[i]))
    ELSE a.names

\* What the part of the try block before "with archive" raises, <<>> if it
\* raises nothing: an empty listing has no first name, a ZipFile has no
\* getnames(), a file that is neither tar nor zip is not recognized.
OpenError(a, c) ==
    CASE a.kind = "tar" ->
            IF ~c.extractDir.given /\ a.names = <<>>
            THEN <<"list index out of range">>
            ELSE <<>>
      [] a.kind = "zip" ->
            IF ~c.extractDir.given /\ a.names = <<>>
            THEN <<"list index out of range">>
            ELSE IF c.dontExtract.given
                 THEN <<"'ZipFile' object has no attribute 'getnames'">>
                 ELSE <<>>
      [] OTHER -> <<"unrecognized archive file type">>

\* rootDir = extractDir, or the first path segment of the first name
RootDir(a, c) ==
    IF c.extractDir.given THEN c.extractDir.value ELSE Split(a.names[1])[1]

\* Faulty variant: the error is raised and the archive stays where it is.
QuarantineKeep(d, err) ==
    [d EXCEPT
        !.message = <<"Failed to extract archive ">> \o d.filename \o <<": ">> \o err,
        !.pc = "raised"]

\* The except clause: the archive is moved aside and RuntimeError("Failed to
\* extract archive {filename}: {err}") is raised.
Quarantine(d, err) ==
    [d EXCEPT
        !.files = With(Without(d.files, d.filename), BadFilename(d.filename),
                       d.files[d.filename]),
        !.message = <<"Failed to extract archive ">> \o d.filename \o <<": ">> \o err,
        !.pc = "raised"]

\* The archive is recognized and opened, rootDir and members are computed.
OpenArchive ==
    /\ dl.pc = "open"
    /\ LET a == dl.files[dl.filename]
       IN dl' = IF OpenError(a, dl.call) # <<>>
                THEN Quarantine(dl, OpenError(a, dl.call))
                ELSE [dl EXCEPT
                        !.archive = a,
                        !.rootDir = RootDir(a, dl.call),
                        !.selected = SelectedMembers(a, dl.call),
                        !.pc = "prepare"]
    /\ UNCHANGED notDownload

\* A forced call removes the extracted directory; a directory that is there
\* is returned as it is ("already exists, skipping extract").
PrepareExtract ==
    /\ dl.pc = "prepare"
    /\ LET path == ExtractedPath(dl)
           trees == IF dl.call.force /\ path \in DOMAIN dl.trees
                    THEN Without(dl.trees, path)
                    ELSE dl.trees
       IN dl' = [dl EXCEPT
                    !.found = path \in DOMAIN dl.trees,
                    !.before = IF path \in DOMAIN dl.trees THEN dl.trees[path] ELSE {},
                    !.trees = trees,
                    !.pc = IF path \in DOMAIN trees THEN "returned" ELSE "scratch"]
    /\ UNCHANGED notDownload

\* if os.path.isdir(tmpExtractedPath): shutil.rmtree(tmpExtractedPath)
ClearScratch ==
    /\ dl.pc = "scratch"
    /\ dl' = [dl EXCEPT !.trees = Without(dl.trees, ScratchDir), !.pc = "extract"]
    /\ UNCHANGED notDownload

\* Where extractall puts a member below the scratch directory.
ScratchPath(d, m) ==
    IF d.call.destDir.given THEN d.call.destDir.value \o <<"/">> \o m ELSE m

\* archive.extractall(...), one member at a time; the member the archive
\* cannot deliver raises.
ExtractMember ==
    /\ dl.pc = "extract"
    /\ dl.extracted < Len(dl.selected)
    /\ LET m == dl.selected[dl.extracted + 1]
           scratch == IF ScratchDir \in DOMAIN dl.trees THEN dl.trees[ScratchDir] ELSE {}
       IN dl' = IF dl.archive.broken # 0 /\ dl.archive.names[dl.archive.broken] = m
                THEN Quarantine(dl, <<"unexpected end of data">>)
                ELSE [dl EXCEPT
                        !.trees = With(dl.trees, ScratchDir,
                                       scratch \cup {ScratchPath(dl, m)}),
                        !.extracted = dl.extracted + 1]
    /\ UNCHANGED notDownload

\* Whether path p is the directory `top` or lies below it.
Below(p, top) ==
    /\ Len(p) >= Len(top)
    /\ SubSeq(p, 1, Len(top)) = top
    /\ Len(p) > Len(top) => p[Len(top) + 1] = "/"

\* shutil.move(os.path.join(tmpExtractedPath, destDir or rootDir), extractedPath):
\* it raises when the scratch directory holds no such directory.
MoveIntoPlace ==
    /\ dl.pc = "extract"
    /\ dl.extracted = Len(dl.selected)
    /\ LET top == ExtractedPath(dl)
           scratch == IF ScratchDir \in DOMAIN dl.trees THEN dl.trees[ScratchDir] ELSE {}
           moved == {p \in scratch : Below(p, top)}
       IN dl' = IF moved = {}
                THEN Quarantine(dl, <<"No such file or directory">>)
                ELSE [dl EXCEPT
                        !.trees = With(With(dl.trees, ScratchDir, scratch \ moved), top,
                                       {SubSeq(p, Len(top) + 2, Len(p)) : p \in moved}),
                        !.created = TRUE,
                        !.pc = "cleanup"]
    /\ UNCHANGED notDownload

\* if os.path.isdir(tmpExtractedPath): shutil.rmtree(tmpExtractedPath);
\* return extractedPath
RemoveScratch ==
    /\ dl.pc = "cleanup"
    /\ dl' = [dl EXCEPT !.trees = Without(dl.trees, ScratchDir), !.pc = "returned"]
    /\ UNCHANGED notDownload

\* The process is stopped in the middle of a call.
Interrupt ==
    /\ dl.pc \in {"download", "rename", "open", "prepare", "scratch", "extract", "cleanup"}
    /\ dl' = [dl EXCEPT !.pc = "interrupted"]
    /\ UNCHANGED notDownload

InitDownload ==
    /\ Init
    /\ platform = "Windows"

NextDownload ==
    \/ \E c \in CallChoices : DownloadBegin(c)
    \/ \E a \in ArchiveChoices : DownloadAttemptSucceeds(a)
    \/ \E e \in DownloadErrors : \E partial \in BOOLEAN : DownloadAttemptFails(e, partial)
    \/ RenameDownload
    \/ OpenArchive
    \/ PrepareExtract
    \/ ClearScratch
    \/ ExtractMember
    \/ MoveIntoPlace
    \/ RemoveScratch
    \/ Interrupt

SpecDownload == InitDownload /\ [][NextDownload]_vars

---------------------------------------------------------------------------
\* GitClone and GitCloneSHA: one call after another on the same source
\* directory.  A folder of the source directory is a record: whether git
\* status succeeds in it, the ref it has checked out, the files it holds.

\* Calls of GitClone / GitCloneSHA in one behaviour.
MaxClones == 2

\* The calls made by the installers of stb, NRD and NRI.
CloneCalls ==
    {[variant |-> "GitCloneSHA", url |-> "https://github.com/nothings/stb.git",
      ref |-> "5736b15f7ea0ffb08dd38af21067c314d6a3aae9",
      cloneDir |-> "stb-5736b15f7ea0ffb08dd38af21067c314d6a3aae9"],
     [variant |-> "GitClone",
      url |-> "https://github.com/NVIDIAGameWorks/RayTracingDenoiser.git",
      ref |-> "v3.8.0", cloneDir |-> "NRD-v3.8.0"],
     [variant |-> "GitClone", url |-> "https://github.com/NVIDIAGameWorks/NRI.git",
      ref |-> "v1.87", cloneDir |-> "NRI-v1.87"]}

\* What a fresh clone holds before any checkout: the remote's default branch.
DefaultBranch == "master"

\* The folder a successful "git clone" creates, with `head` checked out.
ClonedFolder(head) == [git |-> TRUE, head |-> head, files |-> {".git", "README.md"}]

\* What a folder of the source directory may be before the first call: a
\* folder somebody put there, or a clone left by an earlier run, at the
\* wanted ref or at another one.
FolderChoices(c) ==
    {[git |-> FALSE, head |-> "", files |-> {"notes.txt"}],
     [git |-> FALSE, head |-> "", files |-> {}],
     ClonedFolder(c.ref),
     ClonedFolder(DefaultBranch)}

\* Faulty variant: every existing folder passes for a git folder.
IsGitFolderAlways(folder) == TRUE

\* IsGitFolder: "git -C path status" ends with status 0.
IsGitFolder(folder) == clone.folders[folder].git

\* The exception that leaves the call.  GitClone wraps every error in a
\* RuntimeError; the handler of GitCloneSHA formats its message with `tag`,
\* a name the function does not have, so a NameError leaves it.
CloneError(c) == IF c.variant = "GitClone" THEN "RuntimeError" ELSE "NameError"

\* The function is entered: os.path.exists(cloneDir), IsGitFolder(cloneDir).
\* An existing git folder is returned as it is, an existing folder that is
\* no git folder raises, a missing one is cloned.
GitCloneBegin(c) ==
    /\ clone.pc \in {"none", "returned", "raised"}
    /\ clone.calls < MaxClones
    /\ LET exists == c.cloneDir \in DOMAIN clone.folders
           entered == [clone EXCEPT
                          !.calls = clone.calls + 1, !.call = c, !.commands = <<>>,
                          !.error = "", !.existed = exists,
                          !.before = IF exists THEN clone.folders[c.cloneDir]
                                     ELSE NoClone.before]
       IN clone' = IF ~exists
                   THEN [entered EXCEPT !.pc = "clone"]
                   ELSE IF ~IsGitFolder(c.cloneDir)
                        THEN [entered EXCEPT !.pc = "raised", !.error = CloneError(c)]
                        ELSE [entered EXCEPT !.pc = "returned"]
    /\ UNCHANGED notClone

\* The command line of the clone: GitClone names the tag with -b.
CloneCommand(c) ==
    [cmd |-> "git clone --recurse-submodules",
     branch |-> IF c.variant = "GitClone" THEN c.ref ELSE "",
     url |-> c.url, folder |-> c.cloneDir]

\* Run("git clone ..."): it succeeds and the folder is there, or it fails
\* and raises; a failed clone removes the folder, or leaves it cloned when
\* only the submodules failed.
RunGitClone(ok, leftover) ==
    /\ clone.pc = "clone"
    /\ LET c == clone.call
           head == IF c.variant = "GitClone" THEN c.ref ELSE DefaultBranch
           ran == [clone EXCEPT !.commands = Append(clone.commands, CloneCommand(c))]
       IN clone' =
            IF ok
            THEN [ran EXCEPT
                     !.folders = With(clone.folders, c.cloneDir, ClonedFolder(head)),
                     !.pc = IF c.variant = "GitClone" THEN "returned" ELSE "checkout"]
            ELSE [ran EXCEPT
                     !.folders = IF leftover
                                 THEN With(clone.folders, c.cloneDir, ClonedFolder(head))
                                 ELSE clone.folders,
                     !.pc = "raised", !.error = CloneError(c)]
    /\ UNCHANGED notClone

\* Run("git checkout {sha}") inside the cloned folder.
RunGitCheckout(ok) ==
    /\ clone.pc = "checkout"
    /\ LET c == clone.call
           ran == [clone EXCEPT
                      !.commands = Append(clone.commands,
                                          [cmd |-> "git checkout", branch |-> c.ref,
                                           url |-> "", folder |-> c.cloneDir])]
       IN clone' =
            IF ok
            THEN [ran EXCEPT !.folders[c.cloneDir].head = c.ref, !.pc = "returned"]
            ELSE [ran EXCEPT !.pc = "raised", !.error = CloneError(c)]
    /\ UNCHANGED notClone

\* The source directory before the first call: each clone folder missing, or
\* one of FolderChoices.
InitClone ==
    /\ InstallerInit
    /\ platform = "Windows"
    /\ dl = NoDownload
    /\ deploy = NoDeploy
    /\ minify = NoMinify
    /\ proc = NoProc
    /\ patch = NoPatch
    /\ \E present \in SUBSET CloneCalls :
          \E f \in [present -> UNION {FolderChoices(c) : c \in CloneCalls}] :
              /\ \A c \in present : f[c] \in FolderChoices(c)
              /\ clone = [NoClone EXCEPT
                             !.folders = [d \in {c.cloneDir : c \in present} |->
                                            f[CHOOSE c \in present : c.cloneDir = d]]]

NextClone ==
    \/ \E c \in CloneCalls : GitCloneBegin(c)
    \/ \E ok \in BOOLEAN : \E leftover \in BOOLEAN : RunGitClone(ok, leftover)
    \/ \E ok \in BOOLEAN : RunGitCheckout(ok)

SpecClone == InitClone /\ [][NextClone]_vars

---------------------------------------------------------------------------
\* deployHdAurora.py: the renderer's build output is staged into the host
\* framework's tree.  A path of the MaterialX trees is a sequence of names, a
\* name a sequence of tokens, so that a leading dot can be seen; a tree is a
\* function from the paths that exist to what is there.

\* Runs of the script in one behaviour, and rebuilds of the renderer between
\* them.
MaxDeploys == 2

MaxRebuilds == 1

\* aurora_mtlx_folder, with the default --aurora_root, --build_folder and
\* --config
aurora_mtlx_folder == <<<<".">>, <<"Build">>, <<"bin">>, <<"Release">>, <<"MaterialX">>>>

\* usd_mtlx_folder
usd_mtlx_folder == <<<<"usd_root">>, <<"lib">>, <<"MaterialX">>>>

Folder == [dir |-> TRUE, mtime |-> 0, data |-> ""]

RegularFile(mtime, data) == [dir |-> FALSE, mtime |-> mtime, data |-> data]

\* os.path.exists and os.stat on a path of a tree
Stat(tree, path) ==
    IF path \in DOMAIN tree /\ ~tree[path].dir
    THEN Present(tree[path].mtime, tree[path].data)
    ELSE Absent

\* The tree with entry e at path p.
Put(tree, p, e) == [q \in DOMAIN tree \cup {p} |-> IF q = p THEN e ELSE tree[q]]

\* os.makedirs(path, exist_ok=True) below the folder root, whose parent exists
MakeDirs(tree, root, path) ==
    LET made == {SubSeq(path, 1, k) : k \in Len(root)..Len(path)}
    IN [q \in DOMAIN tree \cup made |-> IF q \in DOMAIN tree THEN tree[q] ELSE Folder]

\* shutil.copy2: content and modification time of the source; a source that
\* is not there raises FileNotFoundError.
Copy2(s, d) ==
    IF s.exists
    THEN [raised |-> FALSE, dst |-> Present(s.mtime, s.data)]
    ELSE [raised |-> TRUE, dst |-> d]

\* Faulty variant: the destination is rewritten only when the source is newer.
copy_if_newer(s, d) ==
    IF ~s.exists
    THEN [notice |-> TRUE, copied |-> FALSE, raised |-> FALSE, dst |-> d]
    ELSE IF ~d.exists \/ s.mtime > d.mtime
         THEN [notice |-> FALSE, copied |-> ~Copy2(s, d).raised,
               raised |-> Copy2(s, d).raised, dst |-> Copy2(s, d).dst]
         ELSE [notice |-> FALSE, copied |-> FALSE, raised |-> FALSE, dst |-> d]

\* Faulty variant: the source is not tested for existence.
copy_unchecked(s, d) ==
    IF ~s.exists \/ ~d.exists \/ s.mtime # d.mtime
    THEN [notice |-> FALSE, copied |-> ~Copy2(s, d).raised,
          raised |-> Copy2(s, d).raised, dst |-> Copy2(s, d).dst]
    ELSE [notice |-> FALSE, copied |-> FALSE, raised |-> FALSE, dst |-> d]

\* copy_if_changed(src, dst), on what os.stat tells of the two paths
copy_if_changed(s, d) ==
    IF ~s.exists
    THEN [notice |-> TRUE, copied |-> FALSE, raised |-> FALSE, dst |-> d]
    ELSE IF ~d.exists \/ s.mtime # d.mtime
         THEN [notice |-> FALSE, copied |-> ~Copy2(s, d).raised,
               raised |-> Copy2(s, d).raised, dst |-> Copy2(s, d).dst]
         ELSE [notice |-> FALSE, copied |-> FALSE, raised |-> FALSE, dst |-> d]

\* glob's test for names it does not match: name[0] == "."
IsHidden(name) == name[1] = "."

IsPrefix(a, b) == Len(a) <= Len(b) /\ SubSeq(b, 1, Len(a)) = a

\* Faulty variant: the folder itself is not among the paths.
GlobPathsBelow(tree, folder) ==
    {p \in DOMAIN tree :
        /\ IsPrefix(folder, p)
        /\ Len(p) > Len(folder)
        /\ \A k \in (Len(folder) + 1)..Len(p) : ~IsHidden(p[k])}

\* The paths glob.glob(folder/**, recursive=True) returns: the folder and
\* everything below it that is reached through names without a leading dot.
GlobPaths(tree, folder) ==
    {p \in DOMAIN tree :
        /\ IsPrefix(folder, p)
        /\ \A k \in (Len(folder) + 1)..Len(p) : ~IsHidden(p[k])}

\* They come with every folder before what it holds.
RECURSIVE GlobOrder(_, _)
GlobOrder(paths, acc) ==
    IF paths = {}
    THEN acc
    ELSE LET p == CHOOSE x \in paths : \A y \in paths : Len(x) <= Len(y)
         IN GlobOrder(paths \ {p}, Append(acc, p))

Glob(tree, folder) == GlobOrder(GlobPaths(tree, folder), <<>>)

\* str.replace(old, new): every occurrence, from the left
RECURSIVE Replace(_, _, _)
Replace(s, old, new) ==
    IF Len(s) < Len(old)
    THEN s
    ELSE IF SubSeq(s, 1, Len(old)) = old
         THEN new \o Replace(SubSeq(s, Len(old) + 1, Len(s)), old, new)
         ELSE <<s[1]>> \o Replace(Tail(s), old, new)

\* The loop "for mtlx_file in mtlx_files", from position i on, with the host
\* tree and the copies made so far.
RECURSIVE MirrorFrom(_, _, _, _, _)
MirrorFrom(files, i, source, host, copied) ==
    IF i > Len(files)
    THEN [host |-> host, copied |-> copied]
    ELSE LET mtlx_file == files[i]
             usd_mtlx_file == Replace(mtlx_file, aurora_mtlx_folder, usd_mtlx_folder)
         IN IF ~source[mtlx_file].dir
            THEN LET r == copy_if_changed(Stat(source, mtlx_file), Stat(host, usd_mtlx_file))
                 IN IF r.copied
                    THEN MirrorFrom(files, i + 1, source,
                                    Put(host, usd_mtlx_file,
                                        RegularFile(r.dst.mtime, r.dst.data)),
                                    copied \cup {usd_mtlx_file})
                    ELSE MirrorFrom(files, i + 1, source, host, copied)
            ELSE MirrorFrom(files, i + 1, source,
                            MakeDirs(host, usd_mtlx_folder, usd_mtlx_file), copied)

\* What the renderer's build may have put where the artifacts are taken from.
SourceChoices ==
    {[i \in 1..Len(Artifacts) |-> Present(2, "built")],
     [i \in 1..Len(Artifacts) |-> IF i \in {3, 5} THEN Absent ELSE Present(2, "built")],
     [i \in 1..Len(Artifacts) |-> Absent]}

\* The renderer's MaterialX folder: missing, empty, with a library, with a
\* library and names that start with a dot.
MtlxLibrary ==
    LET lib == Append(aurora_mtlx_folder, <<"libraries">>)
        std == Append(lib, <<"stdlib">>)
    IN (aurora_mtlx_folder :> Folder)
       @@ (lib :> Folder)
       @@ (std :> Folder)
       @@ (Append(lib, <<"targets", ".", "mtlx">>) :> RegularFile(2, "built"))
       @@ (Append(std, <<"stdlib_defs", ".", "mtlx">>) :> RegularFile(2, "built"))

MtlxSourceChoices ==
    {<<>>,
     (aurora_mtlx_folder :> Folder),
     MtlxLibrary,
     MtlxLibrary
       @@ (Append(aurora_mtlx_folder, <<".", "mtlxconfig">>) :> RegularFile(2, "built"))
       @@ (Append(aurora_mtlx_folder, <<".", "cache">>) :> Folder)
       @@ (Append(Append(aurora_mtlx_folder, <<".", "cache">>), <<"index">>)
              :> RegularFile(2, "built"))}

\* The host tree: a new folder, an earlier deployment with the same, older or
\* newer modification times, and an install that has its own MaterialX.
AllHostDirs ==
    {"bin", "lib", "plugin", "plugin/usd", "plugin/usd/hdAurora",
     "plugin/usd/hdAurora/resources"}

HostMaterialX ==
    (usd_mtlx_folder :> Folder)
    @@ (Append(usd_mtlx_folder, <<"libraries">>) :> Folder)
    @@ (Append(Append(usd_mtlx_folder, <<"libraries">>), <<"targets", ".", "mtlx">>)
           :> RegularFile(1, "shipped"))

HostChoices ==
    {[dst |-> [i \in 1..Len(Artifacts) |-> Absent], hostDirs |-> {}, mtlxDst |-> <<>>],
     [dst |-> [i \in 1..Len(Artifacts) |-> Present(2, "deployed")],
      hostDirs |-> AllHostDirs, mtlxDst |-> HostMaterialX],
     [dst |-> [i \in 1..Len(Artifacts) |-> Present(1, "deployed")],
      hostDirs |-> AllHostDirs, mtlxDst |-> <<>>],
     [dst |-> [i \in 1..Len(Artifacts) |-> Present(3, "deployed")],
      hostDirs |-> AllHostDirs, mtlxDst |-> HostMaterialX],
     [dst |-> [i \in 1..Len(Artifacts) |-> IF i \in {3, 5} THEN Present(1, "deployed")
                                          ELSE Absent],
      hostDirs |-> {"bin", "lib"}, mtlxDst |-> HostMaterialX]}

\* args = parser.parse_args(), and the USD-* folders found under the
\* externals' src folder.
DeployCalls ==
    {[build |-> FALSE, usdPaths |-> 1]}
    \cup {[build |-> TRUE, usdPaths |-> n] : n \in 0..2}

BuildSteps ==
    <<"Installing externals", "Running Cmake", "Building Aurora", "Building USD">>

BuildFailures ==
    <<"Failed to install externals", "Failed to run Cmake", "Failed to build Aurora",
      "Failed to build USD">>

DeployIdle == deploy.pc \in {"none", "idle", "done", "exited", "raised"}

\* The script is started; with --build the USD source folder is looked for.
DeployBegin(c) ==
    /\ DeployIdle
    /\ deploy.runs < MaxDeploys
    /\ deploy' = [deploy EXCEPT
                     !.runs = @ + 1,
                     !.call = c,
                     !.step = 1,
                     !.steps = <<>>,
                     !.exit = IF c.build /\ c.usdPaths = 0
                              THEN "[Error] Fail to find usd folder." ELSE "",
                     !.processed = <<>>,
                     !.notices = <<>>,
                     !.copies = <<>>,
                     !.mtlxCopies = {},
                     !.before = [dst |-> deploy.dst, hostDirs |-> deploy.hostDirs,
                                 mtlxDst |-> deploy.mtlxDst],
                     !.pc = IF ~c.build THEN "makedirs"
                            ELSE IF c.usdPaths = 0 THEN "raised" ELSE "build"]
    /\ UNCHANGED notDeploy

\* sys.exit(message) and an uncaught exception end the process with status
\* 1, the end of the script with status 0.
DeployStatus == IF deploy.exit = "" THEN 0 ELSE 1

\* Faulty variant: the return code of the step is not looked at.
BuildStepUnchecked(returncode) ==
    /\ deploy.pc = "build"
    /\ deploy' = [deploy EXCEPT
                     !.steps = Append(@, [step |-> BuildSteps[deploy.step],
                                          returncode |-> returncode]),
                     !.step = IF deploy.step < Len(BuildSteps) THEN @ + 1 ELSE 1,
                     !.pc = IF deploy.step < Len(BuildSteps) THEN "build" ELSE "makedirs"]
    /\ UNCHANGED notDeploy

\* One of the four subprocess.run steps returns.
BuildStep(returncode) ==
    /\ deploy.pc = "build"
    /\ deploy' = [deploy EXCEPT
                     !.steps = Append(@, [step |-> BuildSteps[deploy.step],
                                          returncode |-> returncode]),
                     !.step = IF returncode = 0 /\ deploy.step < Len(BuildSteps)
                              THEN @ + 1 ELSE 1,
                     !.exit = IF returncode # 0 THEN BuildFailures[deploy.step] ELSE "",
                     !.pc = IF returncode # 0 THEN "exited"
                            ELSE IF deploy.step < Len(BuildSteps) THEN "build"
                            ELSE "makedirs"]
    /\ UNCHANGED notDeploy

\* Create target folders if they don't exist.
MakeTargetFolders ==
    /\ deploy.pc = "makedirs"
    /\ deploy' = [deploy EXCEPT !.hostDirs = @ \cup AllHostDirs, !.step = 1, !.pc = "copy"]
    /\ UNCHANGED notDeploy

\* The next copy_file call.
CopyFile ==
    /\ deploy.pc = "copy"
    /\ LET i == deploy.step
           r == copy_if_changed(deploy.src[i], deploy.dst[i])
       IN deploy' = [deploy EXCEPT
                        !.processed = Append(@, i),
                        !.notices = IF r.notice THEN Append(@, i) ELSE @,
                        !.copies = IF r.copied THEN Append(@, i) ELSE @,
                        !.dst[i] = r.dst,
                        !.exit = IF r.raised THEN "FileNotFoundError" ELSE "",
                        !.step = IF r.raised \/ i = Len(Artifacts) THEN 1 ELSE i + 1,
                        !.pc = IF r.raised THEN "raised"
                               ELSE IF i = Len(Artifacts) THEN "mtlx" ELSE "copy"]
    /\ UNCHANGED notDeploy

\* Copy MtlX library folder.
CopyMaterialX ==
    /\ deploy.pc = "mtlx"
    /\ IF usd_mtlx_folder \notin DOMAIN deploy.mtlxDst
       THEN LET source == MakeDirs(deploy.mtlxSrc, aurora_mtlx_folder, aurora_mtlx_folder)
                mtlx_files == Glob(source, aurora_mtlx_folder)
                r == MirrorFrom(mtlx_files, 1, source, deploy.mtlxDst, {})
            IN deploy' = [deploy EXCEPT !.mtlxSrc = source, !.mtlxDst = r.host,
                                        !.mtlxCopies = r.copied, !.pc = "done"]
       ELSE deploy' = [deploy EXCEPT !.pc = "done"]
    /\ UNCHANGED notDeploy

\* Between two runs the renderer is built again: newer files, and another
\* MaterialX folder.
RendererBuilt(s, m) ==
    /\ deploy.pc \in {"done", "exited", "raised"}
    /\ deploy.rebuilds < MaxRebuilds
    /\ deploy' = [deploy EXCEPT
                     !.rebuilds = @ + 1,
                     !.src = [i \in 1..Len(Artifacts) |->
                                 IF s[i].exists THEN Present(4, "rebuilt") ELSE Absent],
                     !.mtlxSrc = [p \in DOMAIN m |->
                                     IF m[p].dir THEN Folder ELSE RegularFile(4, "rebuilt")],
                     !.pc = "idle"]
    /\ UNCHANGED notDeploy

InitDeploy ==
    /\ InstallerInit
    /\ platform = "Windows"
    /\ dl = NoDownload
    /\ clone = NoClone
    /\ minify = NoMinify
    /\ proc = NoProc
    /\ patch = NoPatch
    /\ \E s \in SourceChoices : \E m \in MtlxSourceChoices : \E h \in HostChoices :
          deploy = [NoDeploy EXCEPT !.src = s, !.mtlxSrc = m, !.dst = h.dst,
                                    !.hostDirs = h.hostDirs, !.mtlxDst = h.mtlxDst]

NextDeploy ==
    \/ \E c \in DeployCalls : DeployBegin(c)
    \/ \E returncode \in {0, 1} : BuildStep(returncode)
    \/ MakeTargetFolders
    \/ CopyFile
    \/ CopyMaterialX
    \/ \E s \in SourceChoices : \E m \in MtlxSourceChoices : RendererBuilt(s, m)

SpecDeploy == InitDeploy /\ [][NextDeploy]_vars

---------------------------------------------------------------------------
\* minifyShaders.py: a shader is preprocessed once for every output header
\* and written into the header as a C++ string.  A text is a sequence of
\* characters; the characters that the script treats specially are named SP,
\* TAB, NL, QUOTE, BSLASH and SLASH.

\* The longest command line the model gives the script, in words.
MaxWords == 8

\* The pieces lo..hi, joined.
RECURSIVE Join(_, _, _)
Join(pieces, lo, hi) ==
    IF lo > hi THEN <<>>
    ELSE IF lo = hi THEN pieces[lo]
    ELSE Join(pieces, lo, (lo + hi) \div 2) \o Join(pieces, (lo + hi) \div 2 + 1, hi)

\* re.sub of one character by a text
SubChar(s, c, r) ==
    Join([i \in 1..Len(s) |-> IF s[i] = c THEN r ELSE <<s[i]>>], 1, Len(s))

\* ln = re.sub(r"//.*\n", "\n", ln)
RECURSIVE RemoveComment(_)
RemoveComment(ln) ==
    LET starts == {i \in 1..(Len(ln) - 1) :
                      /\ ln[i] = "SLASH"
                      /\ ln[i + 1] = "SLASH"
                      /\ \E j \in (i + 2)..Len(ln) : ln[j] = "NL"}
    IN IF starts = {}
       THEN ln
       ELSE LET i == CHOOSE x \in starts : \A y \in starts : x <= y
                j == CHOOSE x \in (i + 2)..Len(ln) :
                         ln[x] = "NL" /\ \A y \in (i + 2)..(x - 1) : ln[y] # "NL"
            IN SubSeq(ln, 1, i - 1) \o <<"NL">>
                   \o RemoveComment(SubSeq(ln, j + 1, Len(ln)))

\* ln = re.sub(r"[^\S\r\n]+", " ", ln)
CollapseWhitespace(s) ==
    Join([i \in 1..Len(s) |->
             IF s[i] \in {"SP", "TAB"}
             THEN IF i > 1 /\ s[i - 1] \in {"SP", "TAB"} THEN <<>> ELSE <<"SP">>
             ELSE <<s[i]>>], 1, Len(s))

\* The five substitutions made on every line, in the script's order.
MinifyLine(ln) ==
    SubChar(CollapseWhitespace(SubChar(SubChar(RemoveComment(ln),
                                               "BSLASH", <<"BSLASH", "BSLASH">>),
                                       "NL", <<"BSLASH", "n">>)),
            "QUOTE", <<"BSLASH", "QUOTE">>)

\* Faulty variant: a flush writes the line just read and drops what was
\* pending before it.
RECURSIVE MinifyFromDropping(_, _, _, _)
MinifyFromDropping(lines, i, currOutputStr, written) ==
    IF i > Len(lines)
    THEN Append(written, currOutputStr)
    ELSE LET s == currOutputStr \o MinifyLine(lines[i])
         IN IF Len(s) > 100
            THEN MinifyFromDropping(lines, i + 1, <<>>, Append(written, MinifyLine(lines[i])))
            ELSE MinifyFromDropping(lines, i + 1, s, written)

\* The loop over preprocFile.readlines() from line i on, with currOutputStr
\* and the quoted segments written so far, and the closing segment.
RECURSIVE MinifyFrom(_, _, _, _)
MinifyFrom(lines, i, currOutputStr, written) ==
    IF i > Len(lines)
    THEN Append(written, currOutputStr)
    ELSE LET s == currOutputStr \o MinifyLine(lines[i])
         IN IF Len(s) > 100
            THEN MinifyFrom(lines, i + 1, <<>>, Append(written, s))
            ELSE MinifyFrom(lines, i + 1, s, written)

\* os.path.basename
Basename(path) ==
    IF \E i \in 1..Len(path) : path[i] = "/"
    THEN SubSeq(path, (CHOOSE i \in 1..Len(path) :
                          path[i] = "/" /\ \A j \in (i + 1)..Len(path) : path[j] # "/") + 1,
                Len(path))
    ELSE path

\* os.path.splitext(name)[0]
SplitextRoot(name) ==
    IF \E i \in 2..Len(name) : name[i] = "."
    THEN SubSeq(name, 1, (CHOOSE i \in 2..Len(name) :
                             name[i] = "." /\ \A j \in (i + 1)..Len(name) : name[j] # ".") - 1)
    ELSE name

Chars(c, n) == [i \in 1..n |-> c]

\* What the preprocessor may leave in the side-car file, line by line.
PreprocessedChoices ==
    {<<>>,
     <<Chars("x", 250)>>,
     <<Append(Chars("x", 250), "NL")>>,
     <<Append(Chars("x", 98), "NL")>>,
     <<Append(Chars("x", 99), "NL")>>,
     <<Append(Chars("x", 40), "NL"), Append(Chars("n", 70), "NL"), Append(Chars("a", 5), "NL")>>,
     <<<<"x", "SP", "TAB", "SP", "x", "SLASH", "SLASH", "SP", "a", "NL">>,
       <<"QUOTE", "x", "BSLASH", "n", "QUOTE", "SLASH", "x", "NL">>,
       <<"x", "SLASH", "SLASH", "a">>>>,
     <<Append(Chars("a", 60), "NL"), <<"x", "SP", "a", "SLASH", "n", "NL">>,
       Append(Chars("x", 50), "NL"), <<"a", "SP", "n">>>>}

\* sys.argv: the script, the input, then headers and definitions in turn.
FullArgv ==
    <<<<"minifyShaders", ".", "py">>, <<"in", ".", "hlsl">>,
      <<"out", "/", "A", ".", "h">>, <<"A=1">>,
      <<"B", ".", "inc", ".", "h">>, <<"B=1">>,
      <<"C">>, <<"C=1">>>>

ArgvChoices == {SubSeq(FullArgv, 1, n) : n \in 1..MaxWords}

\* Faulty variant: a missing definitions string is not defaulted.
MinifyStartNoDefault(words) ==
    /\ minify.pc = "none"
    /\ LET argv == words
           usage == Len(argv) < 4 \/ Len(argv) % 2 = 1
           outputFileCount == (Len(argv) - 2) \div 2
       IN minify' =
              IF usage
              THEN [minify EXCEPT !.words = words, !.argv = argv, !.printed = <<"Usage">>,
                                  !.status = <<-1>>, !.pc = "exited"]
              ELSE [minify EXCEPT
                       !.words = words,
                       !.argv = argv,
                       !.outputFileCount = outputFileCount,
                       !.outputFileIdx = 0,
                       !.ouputHeaderFiles =
                           [k \in 1..outputFileCount |-> argv[(k - 1) * 2 + 3]],
                       !.dxcDefines =
                           [k \in 1..outputFileCount |-> argv[(k - 1) * 2 + 4]],
                       !.pc = "dxc"]
    /\ UNCHANGED notMinify

\* The script is started: the definitions default, the usage test, the lists
\* of headers and definitions.
MinifyStart(words) ==
    /\ minify.pc = "none"
    /\ LET argv == IF Len(words) = 3 THEN Append(words, <<"QUOTE", "QUOTE">>) ELSE words
           usage == Len(argv) < 4 \/ Len(argv) % 2 = 1
           outputFileCount == (Len(argv) - 2) \div 2
       IN minify' =
              IF usage
              THEN [minify EXCEPT !.words = words, !.argv = argv, !.printed = <<"Usage">>,
                                  !.status = <<-1>>, !.pc = "exited"]
              ELSE [minify EXCEPT
                       !.words = words,
                       !.argv = argv,
                       !.outputFileCount = outputFileCount,
                       !.outputFileIdx = 0,
                       !.ouputHeaderFiles =
                           [k \in 1..outputFileCount |-> argv[(k - 1) * 2 + 3]],
                       !.dxcDefines =
                           [k \in 1..outputFileCount |-> argv[(k - 1) * 2 + 4]],
                       !.pc = "dxc"]
    /\ UNCHANGED notMinify

\* dxc is run for the current output; it leaves the side-car file or fails.
RunDXC(ok, lines) ==
    /\ minify.pc = "dxc"
    /\ LET k == minify.outputFileIdx + 1
           dxcCommand == [defines |-> minify.dxcDefines[k], input |-> minify.argv[2],
                          output |-> Append(minify.ouputHeaderFiles[k],
                                            ".preprocessed.hlsl")]
       IN minify' =
              IF ok
              THEN [minify EXCEPT !.commands = Append(@, dxcCommand),
                                  !.preprocessed = lines, !.pc = "open"]
              ELSE [minify EXCEPT !.commands = Append(@, dxcCommand),
                                  !.printed = Append(@, "Failed to run DXC command"),
                                  !.status = <<-1>>, !.pc = "exited"]
    /\ UNCHANGED notMinify

\* The header and the side-car file are opened and the header is written.
\* The message of the second open names ouputHeaderFile, which is not
\* defined: the script ends there with a NameError.
WriteHeader(opened) ==
    /\ minify.pc = "open"
    /\ LET k == minify.outputFileIdx + 1
           file == minify.ouputHeaderFiles[k]
           stringName == <<"g_">> \o SplitextRoot(Basename(file))
       IN minify' =
              IF opened = "none"
              THEN [minify EXCEPT !.printed = Append(@, "Failed to open"),
                                  !.status = <<-1>>, !.pc = "exited"]
              ELSE IF opened = "header"
              THEN [minify EXCEPT
                       !.headers = Put(@, file, [stringName |-> <<>>, segments |-> <<>>,
                                                closed |-> FALSE]),
                       !.printed = Append(@, "NameError"),
                       !.status = <<1>>, !.pc = "raised"]
              ELSE [minify EXCEPT
                       !.headers = Put(@, file,
                                       [stringName |-> stringName,
                                        segments |-> MinifyFrom(minify.preprocessed, 1,
                                                                <<>>, <<>>),
                                        closed |-> TRUE]),
                       !.outputFileIdx = k,
                       !.status = IF k = minify.outputFileCount THEN <<0>> ELSE <<>>,
                       !.pc = IF k = minify.outputFileCount THEN "done" ELSE "dxc"]
    /\ UNCHANGED notMinify

InitMinify ==
    /\ Init
    /\ platform = "Windows"

NextMinify ==
    \/ \E words \in ArgvChoices : MinifyStart(words)
    \/ \E ok \in BOOLEAN : \E lines \in PreprocessedChoices : RunDXC(ok, lines)
    \/ \E opened \in {"none", "header", "both"} : WriteHeader(opened)

SpecMinify == InitMinify /\ [][NextMinify]_vars

---------------------------------------------------------------------------
\* The installer process at the level of its commands (installExternals.py):
\* Run, CurrentWorkingDirectory, RunCMake, ApplyGitPatch and the installers
\* built of them, from the prefix paths set up before the install loop to the
\* end of the loop.  A directory is a path, a sequence of names; every
\* directory may hold a file log.txt.

\* The descriptors of the platform the process runs on.
ProcDependencies == DeclaredDependencies["Windows"]

\* context.externalsInstDir, context.externalsSrcDir, context.buildDir
externalsInstDir == <<<<"externals">>>>

externalsSrcDir == externalsInstDir \o <<<<"src">>>>

contextBuildDir == externalsInstDir \o <<<<"build">>>>

\* The directories the script may be started from.
LaunchDirs == {<<<<"aurora">>>>, <<<<"aurora">>, <<"Scripts">>>>}

\* os.path.join(context.externalsInstDir, lib.installFolder)
InstDirOf(d) == externalsInstDir \o <<ProcDependencies[d].name>>

\* The directory DownloadURL, GitClone or GitCloneSHA returns: the root of the
\* extracted archive or the clone folder, under the source directory.
SourceDirOf(d) == externalsSrcDir \o <<ProcDependencies[d].name \o <<"-src">>>>

\* os.path.join(context.buildDir, os.path.split(srcDir)[1], config)
BuildDirOf(d, config) ==
    contextBuildDir \o <<SourceDirOf(d)[Len(SourceDirOf(d))], config>>

\* The libraries whose installers are run, in the order of the required list:
\* one per shape of installer.
ScheduledLibraries ==
    <<Idx.ZLIB, Idx.STB, Idx.BOOST, Idx.OPENIMAGEIO, Idx.OPENSUBDIV, Idx.CXXOPTS>>

\* dependenciesToBuild: the non-empty sublists of ScheduledLibraries.
ScheduleChoices ==
    {LET F[i \in 0..Len(ScheduledLibraries)] ==
             IF i = 0 THEN <<>>
             ELSE IF i \in S THEN Append(F[i - 1], ScheduledLibraries[i]) ELSE F[i - 1]
     IN F[Len(ScheduledLibraries)] : S \in (SUBSET (1..Len(ScheduledLibraries))) \ {{}}}

\* BuildConfigs(context) for the variants Release and All.
ConfigChoices == {<<BUILD_RELEASE>>, <<BUILD_DEBUG, BUILD_RELEASE>>}

\* Every directory the process works in.
ProcDirs ==
    LaunchDirs \cup {externalsSrcDir}
    \cup {SourceDirOf(ScheduledLibraries[i]) : i \in 1..Len(ScheduledLibraries)}
    \cup {BuildDirOf(ScheduledLibraries[i], c) :
             i \in 1..Len(ScheduledLibraries), c \in {BUILD_DEBUG, BUILD_RELEASE}}

\* A command line: what is run, for which library and configuration, and the
\* value of -DCMAKE_PREFIX_PATH on a configure command.
CommandLine(name, lib, config, prefixPaths) ==
    [name |-> name, lib |-> lib, config |-> config, prefixPaths |-> prefixPaths]

\* Directories that hold a log.txt written by an earlier run, and its entry.
EarlierLogDirs ==
    {externalsSrcDir, SourceDirOf(Idx.OPENIMAGEIO), BuildDirOf(Idx.ZLIB, BUILD_RELEASE)}

EarlierEntry == [cmd |-> CommandLine("earlier", 0, <<>>, {}), written |-> "earlier"]

\* One statement of an installer.
Instr(op, dir, name, lib, config) ==
    [op |-> op, dir |-> dir, name |-> name, lib |-> lib, config |-> config]

\* with CurrentWorkingDirectory(dir): ... and the end of the block
EnterDir(dir) == Instr("enter", dir, "", 0, <<>>)

LeaveDir == Instr("leave", <<>>, "", 0, <<>>)

\* Run(cmd)
Command(name, lib, config) == Instr("run", <<>>, name, lib, config)

\* DownloadURL: the download and the extraction are done inside the source
\* directory, with no external command.
DownloadURLProgram == <<EnterDir(externalsSrcDir), LeaveDir>>

\* GitCloneSHA, the clone folder not being there yet.
GitCloneSHAProgram(d) ==
    <<EnterDir(externalsSrcDir),
      Command("git clone", d, <<>>),
      EnterDir(SourceDirOf(d)),
      Command("git checkout", d, <<>>),
      LeaveDir,
      LeaveDir>>

\* RunCMake: for every configuration, the build directory is made anew, the
\* install directory is added to cmakePrefixPaths, and cmake is run twice
\* inside the build directory.
RunCMakeProgram(d, configs) ==
    Join([i \in 1..Len(configs) |->
             <<Instr("builddir", BuildDirOf(d, configs[i]), "", d, configs[i]),
               Instr("add", InstDirOf(d), "", d, configs[i]),
               EnterDir(BuildDirOf(d, configs[i])),
               Instr("configure", <<>>, "cmake", d, configs[i]),
               Command("cmake --build", d, configs[i]),
               LeaveDir>>],
         1, Len(configs))

\* InstallZlib, and every installer of the same shape.
InstallZlibProgram(d, configs) ==
    DownloadURLProgram \o <<EnterDir(SourceDirOf(d))>>
        \o RunCMakeProgram(d, configs) \o <<LeaveDir>>

\* InstallSTB; CopyFiles runs no external command.
InstallSTBProgram(d) ==
    GitCloneSHAProgram(d) \o <<EnterDir(SourceDirOf(d)), LeaveDir>>

\* InstallBoost_Helper: bootstrap, then b2 once per variant.
InstallBoostProgram(d, configs) ==
    DownloadURLProgram
        \o <<EnterDir(SourceDirOf(d)), Command("bootstrap", d, <<>>)>>
        \o [i \in 1..Len(configs) |-> Command("b2 install", d, configs[i])]
        \o <<LeaveDir>>

\* InstallOpenImageIO: ApplyGitPatch, then RunCMake.
InstallOpenImageIOProgram(d, configs) ==
    DownloadURLProgram
        \o <<EnterDir(SourceDirOf(d)), Instr("patch", <<>>, "git apply", d, <<>>)>>
        \o RunCMakeProgram(d, configs) \o <<LeaveDir>>

\* InstallOpenSubdiv: the generator is overridden for the time of RunCMake,
\* inside try ... finally.
InstallOpenSubdivProgram(d, configs) ==
    DownloadURLProgram
        \o <<EnterDir(SourceDirOf(d)), Instr("override", <<>>, "", d, <<>>)>>
        \o RunCMakeProgram(d, configs)
        \o <<Instr("restore", <<>>, "", d, <<>>), LeaveDir>>

\* dep.installer
InstallerProgram(d, configs) ==
    CASE d = Idx.STB -> InstallSTBProgram(d)
      [] d = Idx.OPENSUBDIV -> InstallOpenSubdivProgram(d, configs)
      [] d = Idx.BOOST -> InstallBoostProgram(d, configs)
      [] d = Idx.OPENIMAGEIO -> InstallOpenImageIOProgram(d, configs)
      [] OTHER -> InstallZlibProgram(d, configs)

\* The statement the installer is at.
Cur == proc.prog[proc.ip]

AtStatement(ops) ==
    /\ proc.pc = "installer"
    /\ proc.ip <= Len(proc.prog)
    /\ Cur.op \in ops

\* --generator as given by the user.
GeneratorChoices == {"Ninja", "Visual Studio 16 2019"}

\* Faulty variant: cmakePrefixPaths is left as declared, the empty set.
ProcLaunchEmptyPrefix(schedule, configs, force, dir, earlier, generator) ==
    /\ proc.pc = "none"
    /\ proc' = [NoProc EXCEPT
                   !.pc = "loop", !.schedule = schedule, !.buildConfigs = configs,
                   !.force = force, !.k = 1, !.cwd = dir, !.startDir = dir,
                   !.earlier = earlier,
                   !.cmakeGenerator = generator, !.userGenerator = generator,
                   !.numJobs = 8, !.userJobs = 8,
                   !.logs = [p \in ProcDirs |->
                                IF earlier /\ p \in EarlierLogDirs
                                THEN <<EarlierEntry>> ELSE <<>>],
                   !.cmakePrefixPaths = {}]
    /\ UNCHANGED notProc

\* The script has scheduled `schedule`; cmakePrefixPaths holds the install
\* directory of every required dependency.
ProcLaunch(schedule, configs, force, dir, earlier, generator) ==
    /\ proc.pc = "none"
    /\ proc' = [NoProc EXCEPT
                   !.pc = "loop", !.schedule = schedule, !.buildConfigs = configs,
                   !.force = force, !.k = 1, !.cwd = dir, !.startDir = dir,
                   !.earlier = earlier,
                   !.cmakeGenerator = generator, !.userGenerator = generator,
                   !.numJobs = 8, !.userJobs = 8,
                   !.logs = [p \in ProcDirs |->
                                IF earlier /\ p \in EarlierLogDirs
                                THEN <<EarlierEntry>> ELSE <<>>],
                   !.cmakePrefixPaths =
                       {InstDirOf(RequiredDependenciesOn["Windows"][i]) :
                           i \in 1..Len(RequiredDependenciesOn["Windows"])}]
    /\ UNCHANGED notProc

\* for dep in dependenciesToBuild: dep.installer(...)
InstallerBegins ==
    /\ proc.pc = "loop"
    /\ proc.k <= Len(proc.schedule)
    /\ proc' = [proc EXCEPT
                   !.pc = "installer",
                   !.prog = InstallerProgram(proc.schedule[proc.k], proc.buildConfigs),
                   !.ip = 1,
                   !.starts = Append(@, proc.cwd),
                   !.contexts = Append(@, [cmakeGenerator |-> proc.cmakeGenerator,
                                           numJobs |-> proc.numJobs])]
    /\ UNCHANGED notProc

\* The installer returns; the loop goes to the next dependency.
InstallerReturns ==
    /\ proc.pc = "installer"
    /\ proc.ip > Len(proc.prog)
    /\ proc' = [proc EXCEPT !.pc = "loop", !.k = @ + 1]
    /\ UNCHANGED notProc

\* The loop is over.
LoopEnds ==
    /\ proc.pc = "loop"
    /\ proc.k > Len(proc.schedule)
    /\ proc' = [proc EXCEPT !.pc = "exited", !.status = <<0>>]
    /\ UNCHANGED notProc

\* CurrentWorkingDirectory, entry: curdir = os.getcwd(); os.chdir(dir)
EnterBlock ==
    /\ AtStatement({"enter"})
    /\ proc' = [proc EXCEPT
                   !.frames = Append(@, proc.cwd),
                   !.cwd = Cur.dir,
                   !.ip = @ + 1]
    /\ UNCHANGED notProc

\* CurrentWorkingDirectory, the body has returned: os.chdir(curdir)
LeaveBlock ==
    /\ AtStatement({"leave"})
    /\ LET curdir == proc.frames[Len(proc.frames)]
       IN proc' = [proc EXCEPT
                      !.cwd = curdir,
                      !.frames = SubSeq(@, 1, Len(@) - 1),
                      !.left = Append(@, [entered |-> curdir, now |-> curdir,
                                          by |-> "return", depth |-> Len(proc.frames)]),
                      !.ip = @ + 1]
    /\ UNCHANGED notProc

\* RunCMake: if force and os.path.isdir(buildDir): shutil.rmtree(buildDir);
\* os.makedirs(buildDir).  The log.txt of the directory goes with it.
MakeBuildDir ==
    /\ AtStatement({"builddir"})
    /\ proc' = [proc EXCEPT
                   !.logs = IF proc.force THEN [@ EXCEPT ![Cur.dir] = <<>>] ELSE @,
                   !.removed = IF proc.force THEN @ \cup {Cur.dir} ELSE @,
                   !.ip = @ + 1]
    /\ UNCHANGED notProc

\* RunCMake: cmakePrefixPaths.add(instDir)
AddPrefixPath ==
    /\ AtStatement({"add"})
    /\ proc' = [proc EXCEPT
                   !.cmakePrefixPaths = @ \cup {Cur.dir},
                   !.prefixBefore = proc.cmakePrefixPaths,
                   !.ip = @ + 1]
    /\ UNCHANGED notProc

\* InstallOpenSubdiv: oldGenerator = context.cmakeGenerator; Ninja is replaced
\* by no generator on Windows; oldNumJobs = context.numJobs; try:
OverrideGenerator ==
    /\ AtStatement({"override"})
    /\ proc' = [proc EXCEPT
                   !.handlers = Append(@, [depth |-> Len(proc.frames),
                                           oldGenerator |-> proc.cmakeGenerator,
                                           oldNumJobs |-> proc.numJobs]),
                   !.cmakeGenerator = IF @ = "Ninja" THEN "None" ELSE @,
                   !.ip = @ + 1]
    /\ UNCHANGED notProc

\* InstallOpenSubdiv, RunCMake has returned: finally: the generator and the
\* job count are put back.
RestoreGenerator ==
    /\ AtStatement({"restore"})
    /\ LET h == proc.handlers[Len(proc.handlers)]
       IN proc' = [proc EXCEPT
                      !.cmakeGenerator = h.oldGenerator,
                      !.numJobs = h.oldNumJobs,
                      !.handlers = SubSeq(@, 1, Len(@) - 1),
                      !.ip = @ + 1]
    /\ UNCHANGED notProc

\* The exception has reached a try ... finally of this depth.
HandlerPending ==
    /\ proc.handlers # <<>>
    /\ proc.handlers[Len(proc.handlers)].depth = Len(proc.frames)

\* Faulty variant: the exception passes and nothing is put back.
FinallySkips ==
    /\ proc.pc = "raising"
    /\ HandlerPending
    /\ proc' = [proc EXCEPT !.handlers = SubSeq(@, 1, Len(@) - 1)]
    /\ UNCHANGED notProc

\* InstallOpenSubdiv, RunCMake has raised: finally: the generator and the job
\* count are put back, and the exception goes on.
FinallyRestores ==
    /\ proc.pc = "raising"
    /\ HandlerPending
    /\ LET h == proc.handlers[Len(proc.handlers)]
       IN proc' = [proc EXCEPT
                      !.cmakeGenerator = h.oldGenerator,
                      !.numJobs = h.oldNumJobs,
                      !.handlers = SubSeq(@, 1, Len(@) - 1)]
    /\ UNCHANGED notProc

\* The command line of the statement the installer is at.
CurCommandLine ==
    CommandLine(Cur.name, Cur.lib, Cur.config,
                IF Cur.op = "configure" THEN proc.cmakePrefixPaths ELSE {})

\* os.path.abspath("log.txt")
LogPath == proc.cwd \o <<<<"log.txt">>>>

\* What is known of a command that was started.
Started(spawned) ==
    [cmd |-> CurCommandLine, cwd |-> proc.cwd, op |-> Cur.op, spawned |-> spawned,
     generator |-> proc.cmakeGenerator,
     built |-> {d \in DOMAIN ProcDependencies :
                   \A c \in 1..Len(proc.buildConfigs) :
                       \E r \in 1..Len(proc.returned) :
                           /\ proc.commands[proc.returned[r]].cmd.name = "cmake --build"
                           /\ proc.commands[proc.returned[r]].cmd.lib = d
                           /\ proc.commands[proc.returned[r]].cmd.config
                                  = proc.buildConfigs[c]}]

\* What subprocess.Popen raises when the program cannot be started; its
\* message names neither the command line nor the log.
OSError == [type |-> "OSError", cmd |-> <<>>, log |-> <<>>]

\* Faulty variant: log.txt is opened for writing, not for appending.
RunStartTruncating(spawned) ==
    /\ AtStatement({"run", "configure", "patch"})
    /\ proc' = [proc EXCEPT
                   !.logs[proc.cwd] = <<[cmd |-> CurCommandLine, written |-> "now"]>>,
                   !.commands = Append(@, Started(spawned)),
                   !.pc = IF spawned THEN "child"
                          ELSE IF Cur.op = "patch" THEN "installer" ELSE "raising",
                   !.ip = IF ~spawned /\ Cur.op = "patch" THEN @ + 1 ELSE @,
                   !.raises = IF ~spawned
                              THEN Append(@, [command |-> Len(proc.commands) + 1,
                                              error |-> OSError])
                              ELSE @,
                   !.warnings = IF ~spawned /\ Cur.op = "patch"
                                THEN Append(@, Len(proc.commands) + 1) ELSE @,
                   !.error = IF ~spawned /\ Cur.op # "patch" THEN <<OSError>> ELSE @]
    /\ UNCHANGED notProc

\* Run, up to subprocess.Popen: the command line is appended to log.txt of the
\* working directory, then the subprocess is started.  Popen raises OSError
\* when the program cannot be started; ApplyGitPatch catches what Run raises.
RunStart(spawned) ==
    /\ AtStatement({"run", "configure", "patch"})
    /\ proc' = [proc EXCEPT
                   !.logs[proc.cwd] = Append(@, [cmd |-> CurCommandLine, written |-> "now"]),
                   !.commands = Append(@, Started(spawned)),
                   !.pc = IF spawned THEN "child"
                          ELSE IF Cur.op = "patch" THEN "installer" ELSE "raising",
                   !.ip = IF ~spawned /\ Cur.op = "patch" THEN @ + 1 ELSE @,
                   !.raises = IF ~spawned
                              THEN Append(@, [command |-> Len(proc.commands) + 1,
                                              error |-> OSError])
                              ELSE @,
                   !.warnings = IF ~spawned /\ Cur.op = "patch"
                                THEN Append(@, Len(proc.commands) + 1) ELSE @,
                   !.error = IF ~spawned /\ Cur.op # "patch" THEN <<OSError>> ELSE @]
    /\ UNCHANGED notProc

\* Faulty variant: the exit status of the subprocess is not looked at.
ChildExitsUnchecked(returncode) ==
    /\ proc.pc = "child"
    /\ proc' = [proc EXCEPT
                   !.exits = Append(@, [command |-> Len(proc.commands),
                                        returncode |-> returncode]),
                   !.returned = Append(@, Len(proc.commands)),
                   !.pc = "installer",
                   !.ip = @ + 1]
    /\ UNCHANGED notProc

\* Run, from the end of the subprocess: it returns when p.returncode is 0 and
\* raises RuntimeError("Failed to run '{cmd}'\nSee {log} for more details.")
\* otherwise.  ApplyGitPatch catches the error, prints a warning and returns.
ChildExits(returncode) ==
    /\ proc.pc = "child"
    /\ LET caught == returncode # 0 /\ Cur.op = "patch"
           RuntimeError == [type |-> "RuntimeError",
                            cmd |-> <<proc.commands[Len(proc.commands)].cmd>>,
                            log |-> LogPath]
       IN proc' = [proc EXCEPT
                      !.exits = Append(@, [command |-> Len(proc.commands),
                                           returncode |-> returncode]),
                      !.returned = IF returncode = 0
                                   THEN Append(@, Len(proc.commands)) ELSE @,
                      !.raises = IF returncode # 0
                                 THEN Append(@, [command |-> Len(proc.commands),
                                                 error |-> RuntimeError])
                                 ELSE @,
                      !.warnings = IF caught THEN Append(@, Len(proc.commands)) ELSE @,
                      !.error = IF returncode # 0 /\ ~caught THEN <<RuntimeError>> ELSE @,
                      !.pc = IF returncode = 0 \/ caught THEN "installer" ELSE "raising",
                      !.ip = IF returncode = 0 \/ caught THEN @ + 1 ELSE @]
    /\ UNCHANGED notProc

\* Faulty variant: the block is left by the exception without os.chdir(curdir).
PropagateNoRestore ==
    /\ proc.pc = "raising"
    /\ ~HandlerPending
    /\ proc.frames # <<>>
    /\ proc' = [proc EXCEPT
                   !.frames = SubSeq(@, 1, Len(@) - 1),
                   !.left = Append(@, [entered |-> proc.frames[Len(proc.frames)],
                                       now |-> proc.cwd,
                                       by |-> "exception", depth |-> Len(proc.frames)])]
    /\ UNCHANGED notProc

\* CurrentWorkingDirectory, the body has raised: finally: os.chdir(curdir)
Propagate ==
    /\ proc.pc = "raising"
    /\ ~HandlerPending
    /\ proc.frames # <<>>
    /\ LET curdir == proc.frames[Len(proc.frames)]
       IN proc' = [proc EXCEPT
                      !.cwd = curdir,
                      !.frames = SubSeq(@, 1, Len(@) - 1),
                      !.left = Append(@, [entered |-> curdir, now |-> curdir,
                                          by |-> "exception", depth |-> Len(proc.frames)])]
    /\ UNCHANGED notProc

\* The handler of the install loop: PrintError(str(e)); sys.exit(1)
InstallerRaises ==
    /\ proc.pc = "raising"
    /\ ~HandlerPending
    /\ proc.frames = <<>>
    /\ proc' = [proc EXCEPT !.pc = "exited", !.status = <<1>>]
    /\ UNCHANGED notProc

InitProc ==
    /\ Init
    /\ platform = "Windows"

NextProc ==
    \/ \E schedule \in ScheduleChoices : \E configs \in ConfigChoices :
           \E force \in BOOLEAN : \E dir \in LaunchDirs : \E earlier \in BOOLEAN :
               \E generator \in GeneratorChoices :
                   ProcLaunch(schedule, configs, force, dir, earlier, generator)
    \/ InstallerBegins
    \/ InstallerReturns
    \/ LoopEnds
    \/ EnterBlock
    \/ LeaveBlock
    \/ MakeBuildDir
    \/ AddPrefixPath
    \/ OverrideGenerator
    \/ RestoreGenerator
    \/ FinallyRestores
    \/ \E spawned \in BOOLEAN : RunStart(spawned)
    \/ \E returncode \in {0, 1} : ChildExits(returncode)
    \/ Propagate
    \/ InstallerRaises

SpecProc == InitProc /\ [][NextProc]_vars

---------------------------------------------------------------------------
\* PatchFile (installExternals.py), applied to one file of an extracted source
\* tree.  The text of the file is a sequence of characters; "NL" ends a line,
\* "T" and "E" stand for the texts add_subdirectory(tools) and
\* add_subdirectory(test).

\* Calls of PatchFile in one behaviour.
MaxPatchCalls == 3

\* The position after the first "NL" of s from position i on, 0 if none.
RECURSIVE FindNewline(_, _)
FindNewline(s, i) ==
    IF i > Len(s) THEN 0
    ELSE IF s[i] = "NL" THEN i
    ELSE FindNewline(s, i + 1)

\* file.readlines(): the lines, each with its newline.
RECURSIVE ReadLines(_)
ReadLines(s) ==
    IF s = <<>> THEN <<>>
    ELSE LET k == FindNewline(s, 1)
         IN IF k = 0 THEN <<s>>
            ELSE <<SubSeq(s, 1, k)>> \o ReadLines(SubSeq(s, k + 1, Len(s)))

\* The files a source archive may hold.
SourceFileChoices ==
    {<<"T", "NL", "E", "NL", "x", "NL">>,
     <<"x", "NL", "x">>,
     <<"#", "SP", "T", "NL">>,
     <<"T", "SP", "T">>,
     <<"E", "NL", "NL">>}

\* The patches of InstallTIFF, a patch whose new text does not hold the old
\* one, a patch across a line end, and no patch.
TIFFPatches ==
    <<[oldString |-> <<"T">>, newString |-> <<"#", "SP", "T">>],
      [oldString |-> <<"E">>, newString |-> <<"#", "SP", "E">>]>>

PatchChoices ==
    {TIFFPatches,
     <<[oldString |-> <<"T">>, newString |-> <<"x">>]>>,
     <<[oldString |-> <<"NL", "E">>, newString |-> <<"NL">>]>>,
     <<>>}

\* for (oldString, newString) in patches: newLines = [s.replace(...) ...]
RECURSIVE ApplyPatches(_, _, _)
ApplyPatches(lines, patches, i) ==
    IF i > Len(patches) THEN lines
    ELSE ApplyPatches([k \in 1..Len(lines) |->
                          Replace(lines[k], patches[i].oldString, patches[i].newString)],
                      patches, i + 1)

\* DownloadURL has extracted the source tree.
ExtractSource(content) ==
    /\ patch.pc = "none"
    /\ patch' = [NoPatch EXCEPT !.pc = "extracted", !.original = content, !.file = content]
    /\ UNCHANGED notPatch

\* PatchFile(filename, patches, multiLineMatches)
PatchFile(patches, multiLineMatches) ==
    /\ patch.pc = "extracted"
    /\ patch.calls < MaxPatchCalls
    /\ LET oldLines == IF multiLineMatches THEN <<patch.file>> ELSE ReadLines(patch.file)
           newLines == ApplyPatches(oldLines, patches, 1)
       IN IF newLines # oldLines
          THEN patch' = [patch EXCEPT
                            !.calls = @ + 1,
                            !.backup = <<patch.file>>,
                            !.file = Join(newLines, 1, Len(newLines)),
                            !.writes = Append(@, [changed |-> TRUE,
                                                  file |-> TRUE, backup |-> TRUE])]
          ELSE patch' = [patch EXCEPT
                            !.calls = @ + 1,
                            !.writes = Append(@, [changed |-> FALSE,
                                                  file |-> FALSE, backup |-> FALSE])]
    /\ UNCHANGED notPatch

InitPatch ==
    /\ Init
    /\ platform = "Windows"

NextPatch ==
    \/ \E content \in SourceFileChoices : ExtractSource(content)
    \/ \E patches \in PatchChoices : \E multiLineMatches \in BOOLEAN :
           PatchFile(patches, multiLineMatches)

SpecPatch == InitPatch /\ [][NextPatch]_vars

---------------------------------------------------------------------------
\* Properties of the installer (specification Spec).  They are stated over
\* what a run found when it started (startFiles, startStamps, args) and what
\* it did (dependenciesToBuild, invoked, raised, stampWrites, configWrites).

\* A run is in progress or has just ended, with its staleness check done.
RunScheduled == scheduled /\ pc # "idle"

Required == {requiredDependencies[i] : i \in 1..Len(requiredDependencies)}

ToBuild == {dependenciesToBuild[i] : i \in 1..Len(dependenciesToBuild)}

Invoked == {invoked[i].dep : i \in 1..Len(invoked)}

\* All probe files of d were there when the run started.
ProbesAtStart(d) ==
    \A i \in 1..Len(AllDependencies[d].filesToCheck) :
        <<AllDependencies[d].name, AllDependencies[d].filesToCheck[i]>> \in startFiles

\* The stamp of d held v:versionString when the run started.
StampAtStart(d, v) ==
    /\ AllDependencies[d].packageName \in DOMAIN startStamps
    /\ startStamps[AllDependencies[d].packageName]
           = v \o <<":">> \o AllDependencies[d].versionString

\* The lowercased name of d is among the lowercased --force values.
NamedByForce(d) ==
    \E i \in 1..Len(args.force_build) :
        Lower(args.force_build[i]) = Lower(AllDependencies[d].name)

NoForce == args.force_build = <<>> /\ ~args.force_all

\* C1: a dependency is scheduled if and only if it is in the required list
\* and force-all is set, or its lowercased name is in the forced-rebuild list,
\* or one of its probe files is missing, or its stamp is absent or differs
\* from scriptVersion:versionString; nothing outside the required list is
\* scheduled.
C1_ScheduledIffStale ==
    RunScheduled =>
        \A d \in 1..Len(AllDependencies) :
            d \in ToBuild <=>
                /\ d \in Required
                /\ \/ args.force_all
                   \/ NamedByForce(d)
                   \/ ~ProbesAtStart(d)
                   \/ ~StampAtStart(d, scriptVersion)

\* A second run schedules stb only because its probe file has gone, and
\* leaves the up-to-date boost alone.
C1_Witness ==
    /\ RunScheduled
    /\ NoForce
    /\ ~ProbesAtStart(Idx.STB)
    /\ StampAtStart(Idx.STB, scriptVersion)
    /\ dependenciesToBuild = <<Idx.STB>>
    /\ ProbesAtStart(Idx.BOOST) /\ StampAtStart(Idx.BOOST, scriptVersion)

\* C2 as stated: in a run without --force and --force-all, a required
\* dependency that was up to date at the start is not installed, its stamp is
\* not rewritten, and the run regenerates externalsConfig.cmake.  Only runs
\* whose command line was accepted and that are no dry runs are looked at.
C2_RerunAlwaysRegenerates ==
    pc = "exited" /\ scheduled /\ ~args.dry_run /\ NoForce =>
        \A d \in Required :
            ProbesAtStart(d) /\ StampAtStart(d, scriptVersion) =>
                /\ d \notin Invoked
                /\ \A i \in 1..Len(stampWrites) :
                       stampWrites[i][1] # AllDependencies[d].packageName
                /\ configWrites = 1

\* C2, amended: in a run without --force and --force-all, a required
\* dependency that was up to date at the start is never installed and its
\* stamp is never rewritten; externalsConfig.cmake is regenerated, once, when
\* the run is not a dry run and ends with status 0, and not otherwise.
C2_IdempotentRerun ==
    pc # "idle" /\ NoForce =>
        \A d \in Required :
            ProbesAtStart(d) /\ StampAtStart(d, scriptVersion) =>
                /\ d \notin Invoked
                /\ \A i \in 1..Len(stampWrites) :
                       stampWrites[i][1] # AllDependencies[d].packageName
                /\ AllDependencies[d].packageName \in DOMAIN stamps
                /\ stamps[AllDependencies[d].packageName]
                       = startStamps[AllDependencies[d].packageName]
                /\ pc = "exited" =>
                       IF exitCode = <<0>> /\ ~args.dry_run
                       THEN configWrites = 1 /\ configFile.exists
                       ELSE configWrites = 0

\* A second run over a complete install: nothing is installed, no stamp is
\* written, the configuration file is written again.
C2_Witness ==
    /\ pc = "exited"
    /\ runs = 2
    /\ NoForce
    /\ \A d \in Required : ProbesAtStart(d) /\ StampAtStart(d, scriptVersion)
    /\ invoked = <<>>
    /\ stampWrites = <<>>
    /\ configWrites = 1

\* C3: when the installer of the k-th scheduled dependency raises, the
\* installers called in the run are those of the first k scheduled
\* dependencies and no later one, the failing dependency's stamp is not
\* written, externalsConfig.cmake is not written, and the exit status is 1.
C3_InstallerFailureAborts ==
    raised # <<>> /\ pc # "idle" =>
        /\ pc = "exited"
        /\ exitCode = <<1>>
        /\ \E k \in 1..Len(dependenciesToBuild) :
              /\ dependenciesToBuild[k] = raised[1]
              /\ Len(invoked) = k
              /\ \A j \in 1..k : invoked[j].dep = dependenciesToBuild[j]
        /\ \A i \in 1..Len(stampWrites) :
              stampWrites[i][1] # AllDependencies[raised[1]].packageName
        /\ LET p == AllDependencies[raised[1]].packageName
           IN IF p \in DOMAIN startStamps
              THEN p \in DOMAIN stamps /\ stamps[p] = startStamps[p]
              ELSE p \notin DOMAIN stamps
        /\ configWrites = 0

\* The third scheduled installer of a first install raises, with more
\* dependencies scheduled after it.
C3_Witness ==
    /\ pc = "exited"
    /\ raised # <<>>
    /\ Len(invoked) = 3
    /\ Len(dependenciesToBuild) > 3
    /\ Len(stampWrites) = 2

\* C4: a stamp file is written for a dependency only after its installer has
\* returned without error in the same run, and the text written is exactly
\* scriptVersion:versionString of that dependency.
C4_StampOnlyAfterSuccess ==
    pc # "idle" =>
        /\ \A i \in 1..Len(stampWrites) :
              \E k \in 1..Len(invoked) :
                  /\ AllDependencies[invoked[k].dep].packageName = stampWrites[i][1]
                  /\ raised # <<invoked[k].dep>>
                  /\ stampWrites[i][2] = scriptVersion \o <<":">>
                                           \o AllDependencies[invoked[k].dep].versionString
        /\ \A p \in DOMAIN stamps :
              (p \notin DOMAIN startStamps \/ stamps[p] # startStamps[p]) =>
                  \E k \in 1..Len(invoked) :
                      /\ AllDependencies[invoked[k].dep].packageName = p
                      /\ raised # <<invoked[k].dep>>
                      /\ stamps[p] = scriptVersion \o <<":">>
                                       \o AllDependencies[invoked[k].dep].versionString
        /\ \A p \in DOMAIN startStamps : p \in DOMAIN stamps

\* A run has written the stamps of two dependencies and then met an installer
\* that raised.
C4_Witness ==
    /\ pc = "exited"
    /\ Len(stampWrites) = 2
    /\ Len(invoked) = 3
    /\ raised = <<invoked[3].dep>>
    /\ stamps[stampWrites[1][1]] = stampWrites[1][2]

AllUpToDateAtStart ==
    \A d \in Required : ProbesAtStart(d) /\ StampAtStart(d, scriptVersion)

C6_ScriptVersionInvalidates ==
    RunScheduled =>
        \A v \in ScriptVersions :
            (v # scriptVersion /\ \A d \in Required : StampAtStart(d, v)) =>
                dependenciesToBuild = requiredDependencies

\* A complete install under one script version, the constant edited, and an
\* unforced run that schedules everything.
C6_Witness ==
    /\ RunScheduled
    /\ NoForce
    /\ \E v \in ScriptVersions :
          /\ v # scriptVersion
          /\ \A d \in Required : StampAtStart(d, v) /\ ProbesAtStart(d)
    /\ dependenciesToBuild = requiredDependencies

\* The run has completed the install phase without error.
RunCompleted == pc = "exited" /\ exitCode = <<0>> /\ ~args.dry_run

\* C12: every run that completes the install phase without error, one that
\* rebuilds nothing included, writes externalsConfig.cmake anew: the file
\* holds this run's header and exactly one block for every dependency of the
\* required list, rebuilt or not, in the list's order, none for any other
\* dependency, and nothing of what it held before.
C12_ConfigRegenerated ==
    RunCompleted =>
        /\ configWrites = 1
        /\ configFile.exists
        /\ configFile.header =
              (IF platform # "Windows" THEN <<>>
               ELSE IF args.build_variant = <<"A", "l", "l">>
                    THEN <<<<"R", "e", "l", "e", "a", "s", "e">>, <<"D", "e", "b", "u", "g">>>>
                    ELSE <<args.build_variant>>)
        /\ Len(configFile.packages) = Len(requiredDependencies)
        /\ \A i \in 1..Len(requiredDependencies) :
              configFile.packages[i] =
                  [packageName |-> AllDependencies[requiredDependencies[i]].packageName,
                   installFolder |-> AllDependencies[requiredDependencies[i]].name]
        /\ \A d \in 1..Len(AllDependencies) :
              Cardinality({i \in 1..Len(configFile.packages) :
                              configFile.packages[i].packageName
                                  = AllDependencies[d].packageName})
                  = IF d \in Required THEN 1 ELSE 0

\* A second run on Windows rebuilds nothing and writes the file again, with
\* the header of its own build variant.
C12_Witness ==
    /\ RunCompleted
    /\ runs = 2
    /\ platform = "Windows"
    /\ invoked = <<>>
    /\ configWrites = 1
    /\ args.build_variant = <<"R", "e", "l", "e", "a", "s", "e">>
    /\ Len(configFile.packages) = 20

\* The full required list without zlib, libjpeg, libtiff, libpng, GLM, GLEW,
\* GLFW and GoogleTest, named by their packages, in the order of the list.
LinuxRequired ==
    SelectSeq(FullRequiredDependencies,
              LAMBDA d : AllDependencies[d].packageName
                             \notin {"ZLIB", "JPEG", "TIFF", "PNG", "glm", "GLEW", "glfw3",
                                     "GTest"})

\* C13: on Linux, whatever the command line, the list used for the staleness
\* check, the installation and the generated configuration is the full
\* required list without the eight excluded libraries, in the same order.
C13_LinuxExclusion ==
    platform = "Linux" /\ RunScheduled =>
        LET expected == {LinuxRequired[i] : i \in 1..Len(LinuxRequired)}
        IN /\ Len(LinuxRequired) = Len(FullRequiredDependencies) - 8
           /\ requiredDependencies = LinuxRequired
           /\ ToBuild \subseteq expected
           /\ \A d \in expected :
                 (args.force_all \/ ~ProbesAtStart(d) \/ ~StampAtStart(d, scriptVersion))
                     => d \in ToBuild
           /\ Invoked \subseteq expected
           /\ configWrites = 1 =>
                 /\ Len(configFile.packages) = Len(LinuxRequired)
                 /\ \A i \in 1..Len(LinuxRequired) :
                       configFile.packages[i].packageName
                           = AllDependencies[LinuxRequired[i]].packageName

\* A Linux run forced to rebuild USD and zlib over a complete install
\* rebuilds USD alone and writes twelve blocks.
C13_Witness ==
    /\ platform = "Linux"
    /\ RunCompleted
    /\ NamedByForce(Idx.ZLIB)
    /\ AllUpToDateAtStart
    /\ Len(invoked) = 1
    /\ invoked[1].dep = Idx.USD
    /\ Len(configFile.packages) = 12

\* The run has created no directory, written no file and called no installer.
NoSideEffect ==
    /\ effects = {}
    /\ invoked = <<>>
    /\ stampWrites = <<>>
    /\ configWrites = 0
    /\ instFiles = startFiles
    /\ stamps = startStamps

\* The part of a --build-args value before its first comma and the part after.
LibraryPart(s) ==
    IF \E i \in 1..Len(s) : s[i] = ","
    THEN SubSeq(s, 1, (CHOOSE i \in 1..Len(s) :
                          s[i] = "," /\ \A j \in 1..(i - 1) : s[j] # ",") - 1)
    ELSE s

ArgumentPart(s) ==
    IF \E i \in 1..Len(s) : s[i] = ","
    THEN SubSeq(s, (CHOOSE i \in 1..Len(s) :
                       s[i] = "," /\ \A j \in 1..(i - 1) : s[j] # ",") + 1, Len(s))
    ELSE <<>>

NamesOn(system, s, d) ==
    Lower(LibraryPart(s)) = Lower(DeclaredDependencies[system][d].name)

Names(s, d) == NamesOn(platform, s, d)

\* The command line is one the installer refuses.
InvalidCommandLine ==
    \/ args.jobs <= 0
    \/ \E i \in 1..Len(args.build_args) :
          LET s == args.build_args[i]
          IN \/ \A k \in 1..Len(s) : s[k] # ","
             \/ LibraryPart(s) = <<>>
             \/ ArgumentPart(s) = <<>>
             \/ \A d \in DOMAIN AllDependencies : ~Names(s, d)

\* C14: a --build-args value with no comma, with an empty library or an empty
\* argument part, or naming no declared dependency, or a job count <= 0, ends
\* the run with status 1 before any directory is created, any file written
\* and any installer invoked.
C14_ConfigurationErrorFirst ==
    pc # "idle" /\ InvalidCommandLine =>
        /\ pc \in {"construct", "exited"}
        /\ pc = "exited" => exitCode = <<1>>
        /\ ~scheduled
        /\ NoSideEffect

\* A second run with a value whose library part is empty, after valid values,
\* has exited with status 1 and left the first run's directories as they were.
C14_Witness ==
    /\ pc = "exited"
    /\ exitCode = <<1>>
    /\ runs = 2
    /\ Len(args.build_args) = 2
    /\ LibraryPart(args.build_args[2]) = <<>>
    /\ NoSideEffect
    /\ dirs = {"inst", "src", "build"}

\* The arguments a command line gives for dependency d, in order.
ArgumentsFor(system, a, d) ==
    LET sel == SelectSeq(a.build_args, LAMBDA s : NamesOn(system, s, d))
    IN [i \in 1..Len(sel) |-> ArgumentPart(sel[i])]

\* On each platform, every command line paired with every dependency and the
\* arguments it gives for it.
GivenOn(system) ==
    {<<a, d, ArgumentsFor(system, a, d)>> :
        a \in ArgChoices, d \in 1..Len(DeclaredDependencies[system])}

GivenTable == [Windows |-> GivenOn("Windows"), Linux |-> GivenOn("Linux")]

\* C15: the argument list handed to a dependency's installer is exactly the
\* --build-args arguments whose library name equals the dependency's name
\* ignoring case, in the order given.  The list is thus a function of the
\* values given for that dependency alone: two runs that differ only in the
\* values given for other dependencies hand its installer the same list.
C15_BuildArgsScoping ==
    pc # "idle" =>
        \A i \in 1..Len(invoked) :
            <<args, invoked[i].dep, invoked[i].buildArgs>> \in GivenTable[platform]

\* Boost's installer was handed both Boost arguments, USD's installer its own
\* one, and another installer none.
C15_Witness ==
    /\ pc = "exited"
    /\ Len(args.build_args) = 4
    /\ \E i, j, k \in 1..Len(invoked) :
          /\ invoked[i].dep = Idx.BOOST
          /\ invoked[i].buildArgs = <<<<"cxxflags=-O3">>, <<"-d2">>>>
          /\ invoked[j].dep = Idx.USD
          /\ invoked[j].buildArgs = <<<<"-DPXR_STRICT_BUILD_MODE=ON">>>>
          /\ invoked[k].dep = Idx.TBB
          /\ invoked[k].buildArgs = <<>>

\* One of the toolchain requirements is not met on this machine.
ToolchainMissing ==
    \/ ~env.compiler
    \/ ~env.cmake
    \/ env.cmake_version = <<>>
    \/ env.cmake_version # <<>> /\ env.cmake_version[1] < 3
    \/ env.cmake_version # <<>> /\ env.cmake_version[1] = 3 /\ env.cmake_version[2] < 21
    \/ platform = "Windows" /\ Idx.JPEG \in Required /\ ~env.nasm

\* C16: without a compiler, without cmake, with a cmake whose version is
\* unknown or lower than 3.21, or on Windows with libjpeg required and no
\* nasm, the run exits with status 1 having created no directory, invoked no
\* installer and written no stamp or config file; otherwise it goes on.
C16_PreflightFatal ==
    RunScheduled /\ pc # "preflight" =>
        IF ToolchainMissing
        THEN pc = "exited" /\ exitCode = <<1>> /\ NoSideEffect
        ELSE \/ pc \in {"summary", "install"}
             \/ pc = "exited" /\ exitCode = <<0>>
             \/ pc = "exited" /\ (env.badDir # "none" \/ raised # <<>>)

\* With cmake 3.20.5 a second run over an incomplete install has exited with
\* status 1 and done nothing.
C16_Witness ==
    /\ pc = "exited"
    /\ exitCode = <<1>>
    /\ runs = 2
    /\ env.cmake_version = <<3, 20, 5>>
    /\ dependenciesToBuild # <<>>
    /\ NoSideEffect

\* C17: a dry run whose command line and toolchain are accepted exits with
\* status 0 and creates no directory, invokes no installer and writes no
\* stamp and no externalsConfig.cmake.
C17_DryRunNoEffect ==
    pc # "idle" /\ args.dry_run /\ ~InvalidCommandLine /\ ~ToolchainMissing =>
        /\ pc \in {"construct", "schedule", "preflight", "summary", "exited"}
        /\ pc = "exited" => exitCode = <<0>>
        /\ NoSideEffect

\* A dry run on a fresh machine, with everything to build, has exited with
\* status 0 and no directory exists.
C17_Witness ==
    /\ pc = "exited"
    /\ exitCode = <<0>>
    /\ args.dry_run
    /\ Len(dependenciesToBuild) = Len(requiredDependencies)
    /\ dirs = {}
    /\ NoSideEffect

\* This run was started right after a run in which the installer of d raised.
FollowsFailureOf(d) == previous.run /\ previous.raised = <<d>>

\* C24: whenever Boost's install procedure fails, the file probed for Boost's
\* existence, the version header under the Boost install folder, no longer
\* exists once the error has propagated, and the next run without force flags
\* schedules Boost again.
C24_BoostGuard ==
    /\ pc = "exited" /\ raised = <<Idx.BOOST>> => ~Exists(Idx.BOOST)
    /\ RunScheduled /\ FollowsFailureOf(Idx.BOOST) /\ NoForce =>
           Idx.BOOST \in ToBuild

\* C37 is stated over runs on a tree that an earlier complete run has filled
\* (specification SpecRerun).
\* C37 as stated: whenever the installer of a dependency raised in a run,
\* whatever the tree was when that run started, the next run without force
\* flags schedules the dependency again.
C37_FailedAlwaysRetried ==
    RunScheduled /\ previous.run /\ NoForce =>
        \A i \in 1..Len(previous.raised) : previous.raised[i] \in ToBuild

\* C37, amended: the next run without force flags schedules the dependency
\* whose installer raised unless its stamp was current when the failed run
\* started and all its probe files are there after the failure; in that case
\* (a dependency rebuilt because it was forced, or because a probe file was
\* missing, whose installer failed with the probe files in place) it is not
\* scheduled again.
C37_RetriedUnlessStamped ==
    RunScheduled /\ previous.run /\ NoForce =>
        \A i \in 1..Len(previous.raised) :
            LET d == previous.raised[i]
            IN d \in ToBuild <=> ~(d \in previous.current /\ ProbesAtStart(d))

\* zlib was up to date, a run forced its rebuild and its installer raised;
\* the run that follows, without force flags, has scheduled and has not
\* scheduled zlib.
C37_Witness ==
    /\ RunScheduled
    /\ NoForce
    /\ FollowsFailureOf(Idx.ZLIB)
    /\ Idx.ZLIB \in previous.current
    /\ ProbesAtStart(Idx.ZLIB)
    /\ Idx.ZLIB \notin ToBuild
    /\ pc = "exited"

\* The position of the block of d in externalsConfig.cmake.
BlockPosition(d) ==
    CHOOSE k \in 1..Len(configFile.packages) :
        configFile.packages[k].packageName = AllDependencies[d].packageName

\* The position of d in the required list.
RequiredRank(d) ==
    CHOOSE k \in 1..Len(requiredDependencies) : requiredDependencies[k] = d

\* C25 as stated: of two scheduled dependencies, the one whose descriptor is
\* declared first has its installer invoked first, and its block of
\* externalsConfig.cmake written first.
C25_DeclarationOrder ==
    /\ \A i, j \in 1..Len(invoked) :
           invoked[i].dep < invoked[j].dep => i < j
    /\ RunCompleted =>
           \A a, b \in ToBuild :
               a < b => BlockPosition(a) < BlockPosition(b)

\* C25, amended: dependencies are processed in the order of the required
\* list of the script, which is not the order of declaration: of two
\* scheduled dependencies, the one that comes first in the required list has
\* its installer invoked first, and its block of externalsConfig.cmake
\* written first.
C25_RequiredListOrder ==
    /\ RunScheduled =>
           \A i, j \in 1..Len(invoked) :
               RequiredRank(invoked[i].dep) < RequiredRank(invoked[j].dep) => i < j
    /\ RunCompleted =>
           \A a, b \in ToBuild :
               RequiredRank(a) < RequiredRank(b) => BlockPosition(a) < BlockPosition(b)

\* A run has completed in which the installers of JPEG and of Boost were both
\* invoked, JPEG's first although Boost is declared first, and the block of
\* JPEG comes before the block of Boost.
C25_Witness ==
    /\ RunCompleted
    /\ \E i, j \in 1..Len(invoked) :
           /\ i < j
           /\ invoked[i].dep = Idx.JPEG
           /\ invoked[j].dep = Idx.BOOST
    /\ Idx.BOOST < Idx.JPEG
    /\ BlockPosition(Idx.JPEG) < BlockPosition(Idx.BOOST)

\* The installers that have returned in this run.
Installed == Invoked \ {raised[i] : i \in 1..Len(raised)}

\* C27: the stamp of a dependency is written as soon as its installer has
\* returned, before the next installer starts: at every point of the install
\* loop, and when the k-th installer has failed, every dependency installed
\* earlier in the run carries the stamp scriptVersion:versionString; and the
\* run that follows the failed one without force flags invokes the installer
\* of none of them whose probe files exist.
C27_Resumption ==
    /\ RunScheduled =>
           \A d \in Installed :
               CheckVersion(AllDependencies[d].packageName,
                            AllDependencies[d].versionString)
    /\ RunScheduled /\ previous.run /\ previous.raised # <<>> /\ NoForce =>
           \A d \in previous.installed :
               ProbesAtStart(d) => d \notin ToBuild /\ d \notin Invoked

\* The run before failed after it had installed at least eight dependencies;
\* this one, without force flags, starts with the installer that failed and
\* has gone past it.
C27_Witness ==
    /\ RunScheduled
    /\ previous.run
    /\ NoForce
    /\ Cardinality(previous.installed) >= 8
    /\ previous.raised = <<Idx.BOOST>>
    /\ \A d \in previous.installed : ProbesAtStart(d)
    /\ Len(invoked) >= 2
    /\ invoked[1].dep = Idx.BOOST

\* The registry after the declarations of one platform: the ordered list and
\* the name map agree, and names and package names are unique.
RegistryOn(system) ==
    LET list == DeclaredDependencies[system]
        byName == RegisteredByName(list)
    IN /\ \A i, j \in 1..Len(list) :
              i # j => Lower(list[i].name) # Lower(list[j].name)
       /\ \A i \in 1..Len(list) :
              /\ Lower(list[i].name) \in DOMAIN byName
              /\ byName[Lower(list[i].name)] = i
       /\ Cardinality(DOMAIN byName) = Len(list)
       /\ \A i, j \in 1..Len(list) :
              i # j => list[i].packageName # list[j].packageName

RegistryTable == [Windows |-> RegistryOn("Windows"), Linux |-> RegistryOn("Linux")]

\* C35.  Descriptor registry: once every descriptor is declared, no two of
\* them have the same name ignoring letter case, each descriptor of the
\* ordered list is the one the name map holds under its lowercased name, the
\* map has as many entries as the list, and no two descriptors share a
\* package name (the name of their stamp file).
C35_RegistryInvariant == RegistryTable[platform]

\* A context was constructed from a --build-args option that names Boost in
\* upper case: the name was looked up in the map and filed under "boost".
C35_Witness ==
    /\ context.constructed
    /\ Len(args.build_args) >= 1
    /\ Partition(args.build_args[1])[1] = BOOST_UPPER
    /\ Lower(BOOST_UPPER) \in DOMAIN context.buildArgs
    /\ AllDependenciesByName[Lower(BOOST_UPPER)] = Idx.BOOST

---------------------------------------------------------------------------
\* Properties of DownloadURL (specification SpecDownload).  dl.attempts
\* counts the downloader calls of the current call, dl.errors holds the
\* errors they raised, dl.found and dl.before record whether the extracted
\* directory was there when the call looked for it, and what it held.

\* C7: when the archive was not there and the downloader fails k times
\* (0 <= k <= 4) and then succeeds, the download phase ends after exactly
\* k + 1 downloader calls, the archive is there under the last path segment
\* of the URL, and the call's .tmp file is gone.
C7_DownloadRetry ==
    dl.pc = "open" /\ dl.attempts >= 1 =>
        /\ Len(dl.errors) \in 0..4
        /\ dl.attempts = Len(dl.errors) + 1
        /\ dl.filename = <<dl.call.url[Len(dl.call.url)]>>
        /\ dl.filename \in DOMAIN dl.files
        /\ dl.files[dl.filename] \in ArchiveChoices
        /\ dl.filename \o <<".tmp">> \notin DOMAIN dl.files

\* Four failed attempts, one of which left a partial temporary file, and a
\* fifth that succeeds.
C7_Witness ==
    /\ dl.pc = "open"
    /\ Len(dl.errors) = 4
    /\ dl.attempts = 5
    /\ dl.filename \in DOMAIN dl.files

\* C8: the downloader is called at most 5 times in one call of DownloadURL;
\* when all 5 attempts fail the call raises, the message contains the text of
\* the fifth error, and no file with the archive's final name exists.
C8_DownloadExhaustion ==
    /\ dl.attempts <= 5
    /\ Len(dl.errors) = 5 =>
          /\ dl.pc = "raised"
          /\ \E i \in 1..Len(dl.message) : dl.message[i] = dl.errors[5]
          /\ dl.message[1] = "Failed to download "
          /\ dl.filename \notin DOMAIN dl.files

\* Five failed attempts, the last with another error than the first.
C8_Witness ==
    /\ dl.pc = "raised"
    /\ Len(dl.errors) = 5
    /\ dl.errors[5] # dl.errors[1]
    /\ dl.filename \o <<".tmp">> \in DOMAIN dl.files

\* C9: when the archive is of an unrecognized type, or opening or extracting
\* it raises, the archive has been renamed to <filename>.bad, the original
\* name no longer exists, an error is raised, and the extracted directory is
\* not there; a call never gets past the opening with a file that is neither
\* zip nor tar.
C9_ArchiveQuarantine ==
    /\ dl.pc = "raised" /\ Len(dl.errors) < 5 =>
          /\ dl.filename \notin DOMAIN dl.files
          /\ dl.filename \o <<".bad">> \in DOMAIN dl.files
          /\ dl.files[dl.filename \o <<".bad">>] \in ArchiveChoices
          /\ dl.message[1] = "Failed to extract archive "
          /\ ~dl.created
          /\ dl.archive.kind # "unopened" =>
                (IF dl.call.destDir.given THEN dl.call.destDir.value ELSE dl.rootDir)
                    \notin DOMAIN dl.trees
    /\ dl.pc \in {"prepare", "scratch", "extract", "cleanup", "returned"} =>
          /\ dl.filename \in DOMAIN dl.files
          /\ dl.files[dl.filename].kind \in {"zip", "tar"}

\* The third member of an archive could not be extracted after two were.
C9_Witness ==
    /\ dl.pc = "raised"
    /\ dl.extracted = 2
    /\ dl.archive.broken = 3
    /\ dl.filename \o <<".bad">> \in DOMAIN dl.files
    /\ dl.filename \notin DOMAIN dl.files

\* The directory `content` is what a complete extraction of archive a by call
\* c puts at `path`.
CompleteExtraction(a, c, path, content) ==
    LET chosen == IF c.dontExtract.given
                  THEN {a.names[i] : i \in {j \in 1..Len(a.names) :
                            \A k \in 1..Len(c.dontExtract.value) :
                                ~Fnmatch(a.names[j], c.dontExtract.value[k])}}
                  ELSE {a.names[i] : i \in 1..Len(a.names)}
        below == {m \in chosen : Len(m) >= Len(path) /\ SubSeq(m, 1, Len(path)) = path}
    IN /\ a.kind \in {"zip", "tar"}
       /\ a.broken = 0 \/ a.names[a.broken] \notin chosen
       /\ IF c.destDir.given
          THEN path = c.destDir.value /\ content = chosen
          ELSE /\ c.extractDir.given \/ a.names # <<>>
               /\ path = IF c.extractDir.given THEN c.extractDir.value
                         ELSE <<a.names[1][1]>>
               /\ content = {SubSeq(m, Len(path) + 2, Len(m)) : m \in below}
               /\ content # {}

\* C10: in every state, interrupted ones included, a directory other than
\* the scratch directory exists only as the result of a complete extraction
\* of all selected members; and a call that finds the extracted directory in
\* place with force false extracts nothing and leaves it as it was.
C10_AllOrNothing ==
    /\ \A path \in DOMAIN dl.trees :
          path # <<"extract_dir">> =>
              \E a \in ArchiveChoices : \E c \in CallChoices :
                  CompleteExtraction(a, c, path, dl.trees[path])
    /\ dl.created =>
          /\ dl.extracted = Len(dl.selected)
          /\ CompleteExtraction(dl.archive, dl.call,
                                IF dl.call.destDir.given THEN dl.call.destDir.value
                                ELSE dl.rootDir,
                                dl.trees[IF dl.call.destDir.given
                                         THEN dl.call.destDir.value ELSE dl.rootDir])
    /\ dl.found /\ ~dl.call.force =>
          /\ dl.pc \in {"returned", "interrupted"}
          /\ dl.extracted = 0
          /\ ~dl.created
          /\ (IF dl.call.destDir.given THEN dl.call.destDir.value ELSE dl.rootDir)
                 \in DOMAIN dl.trees
          /\ dl.trees[IF dl.call.destDir.given THEN dl.call.destDir.value ELSE dl.rootDir]
                 = dl.before

\* A call was interrupted with two members in the scratch directory and no
\* extracted directory; and before it a call had found the directory of a
\* complete extraction and skipped.
C10_Witness ==
    /\ dl.pc = "interrupted"
    /\ dl.extracted = 2
    /\ <<"extract_dir">> \in DOMAIN dl.trees
    /\ dl.rootDir \notin DOMAIN dl.trees
    /\ dl.calls = 2

\* An archive of either format that can be read to its end and holds members.
ValidArchive(a) ==
    /\ a.kind \in {"tar", "zip"}
    /\ a.broken = 0
    /\ a.names # <<>>

\* C36: exclusion patterns work for both archive formats: a call with a list
\* of patterns on a valid tar or zip archive does not raise and does not
\* move the archive aside, and the directory it creates holds every member
\* that matches no pattern and no member that matches one.
C36_ExclusionBothFormats ==
    /\ dl.pc = "raised" /\ Len(dl.errors) < maxRetries /\ dl.call.dontExtract.given =>
          ~ValidArchive(dl.files[BadFilename(dl.filename)])
    /\ dl.created /\ dl.call.dontExtract.given =>
          CompleteExtraction(dl.archive, dl.call, ExtractedPath(dl),
                             dl.trees[ExtractedPath(dl)])

---------------------------------------------------------------------------
\* Properties of GitClone and GitCloneSHA (specification SpecClone).
\* clone.existed and clone.before record whether the target folder was there
\* when the call was entered, and what it was.

\* C11: for both clone variants, when the target folder exists and is no git
\* working copy, the call raises, runs no clone and no checkout command, and
\* leaves the folder as it was.
C11_ForeignFolderProtected ==
    clone.pc # "none" /\ clone.existed /\ ~clone.before.git =>
        /\ clone.pc = "raised"
        /\ clone.error \in {"RuntimeError", "NameError"}
        /\ clone.commands = <<>>
        /\ clone.call.cloneDir \in DOMAIN clone.folders
        /\ clone.folders[clone.call.cloneDir] = clone.before

\* The commit-based variant has met a folder with a file of somebody else.
C11_Witness ==
    /\ clone.pc = "raised"
    /\ clone.call.variant = "GitCloneSHA"
    /\ clone.existed
    /\ ~clone.before.git
    /\ clone.before.files = {"notes.txt"}
    /\ clone.commands = <<>>

\* C38: whenever GitCloneSHA returns for a commit and a target folder, the
\* working copy in that folder has that commit checked out, also when the
\* folder was left by a call whose clone succeeded and whose checkout failed,
\* or by a run that had another ref checked out.
C38_CommitPinned ==
    clone.pc = "returned" /\ clone.call.variant = "GitCloneSHA" =>
        /\ clone.call.cloneDir \in DOMAIN clone.folders
        /\ clone.folders[clone.call.cloneDir].git
        /\ clone.folders[clone.call.cloneDir].head = clone.call.ref

---------------------------------------------------------------------------
\* Properties of deployHdAurora.py (specification SpecDeploy).  They are
\* stated over what the run found in the host tree when it started
\* (deploy.before) and what it did (processed, notices, copies).

\* The run is staging files or has staged them.
Staging == deploy.pc \in {"copy", "mtlx", "done"}

\* C18: for a source file that exists, the destination is copied when it is
\* absent, not rewritten when its modification time equals the source's,
\* overwritten when its modification time differs, older or newer; after a
\* copy the destination's modification time is the source's.
C18_ChangeDetection ==
    Staging =>
        \A i \in 1..Len(Artifacts) :
            InList(i, deploy.processed) /\ deploy.src[i].exists =>
                LET source == deploy.src[i]
                    was == deploy.before.dst[i]
                    now == deploy.dst[i]
                    copied == InList(i, deploy.copies)
                IN /\ ~was.exists => copied /\ now.exists /\ now.data = source.data
                   /\ was.exists /\ was.mtime = source.mtime => ~copied /\ now = was
                   /\ was.exists /\ was.mtime # source.mtime =>
                         copied /\ now.data = source.data
                   /\ copied => now.mtime = source.mtime

\* A deployed Aurora.dll newer than the built one has been overwritten and
\* carries the built one's modification time.
C18_Witness ==
    /\ deploy.pc = "done"
    /\ deploy.before.dst[4] = Present(3, "deployed")
    /\ deploy.src[4] = Present(2, "built")
    /\ InList(4, deploy.copies)
    /\ deploy.dst[4] = Present(2, "built")

\* C19: an artifact whose source file does not exist gets a notice, its
\* destination is neither created nor modified, nothing is raised, and every
\* remaining artifact and the MaterialX step are still processed.
C19_MissingArtifactSkipped ==
    /\ Staging =>
          \A i \in 1..Len(Artifacts) :
              InList(i, deploy.processed) /\ ~deploy.src[i].exists =>
                  /\ InList(i, deploy.notices)
                  /\ ~InList(i, deploy.copies)
                  /\ deploy.dst[i] = deploy.before.dst[i]
    /\ deploy.pc \in {"raised", "exited"} => deploy.processed = <<>>
    /\ deploy.pc \in {"mtlx", "done"} =>
          deploy.processed = [i \in 1..Len(Artifacts) |-> i]

\* Without the two .pdb files the run has left the deployed ones as they
\* were, given two notices, and copied the artifacts that follow them.
C19_Witness ==
    /\ deploy.pc = "done"
    /\ ~deploy.src[3].exists
    /\ ~deploy.src[5].exists
    /\ deploy.notices = <<3, 5>>
    /\ deploy.dst[3] = Present(1, "deployed")
    /\ deploy.dst[5] = Present(1, "deployed")
    /\ deploy.copies = <<1, 2, 4, 6, 7, 8, 9, 10, 11>>

\* The path under the host's lib/MaterialX at the same relative path.
SameRelativePath(p) ==
    usd_mtlx_folder \o SubSeq(p, Len(aurora_mtlx_folder) + 1, Len(p))

\* C20: a host lib/MaterialX folder that exists when staging starts is left
\* as it is, whatever the renderer's MaterialX tree holds; when it is absent,
\* every directory and every file of the renderer's MaterialX tree exists
\* at the same relative path under the host's lib/MaterialX afterwards.
C20_MaterialXMirror ==
    deploy.pc = "done" =>
        IF usd_mtlx_folder \in DOMAIN deploy.before.mtlxDst
        THEN deploy.mtlxDst = deploy.before.mtlxDst
        ELSE \A p \in DOMAIN deploy.mtlxSrc :
                 /\ SameRelativePath(p) \in DOMAIN deploy.mtlxDst
                 /\ deploy.mtlxDst[SameRelativePath(p)].dir = deploy.mtlxSrc[p].dir

\* C21: with --build the four steps run in the order externals installer,
\* renderer configure, renderer build, host-framework build, each only after
\* every earlier one returned 0; at the first non-zero status no later step
\* runs, no host directory is created, no file is copied and the process ends
\* with a non-zero status.  Without --build no step runs.
C21_BuildBeforeDeploy ==
    deploy.pc \notin {"none", "idle"} =>
        LET order == <<"Installing externals", "Running Cmake", "Building Aurora",
                       "Building USD">>
            n == Len(deploy.steps)
            failed == \E k \in 1..n : deploy.steps[k].returncode # 0
            untouched ==
                /\ deploy.hostDirs = deploy.before.hostDirs
                /\ deploy.dst = deploy.before.dst
                /\ deploy.mtlxDst = deploy.before.mtlxDst
                /\ deploy.processed = <<>>
                /\ deploy.copies = <<>>
                /\ deploy.mtlxCopies = {}
        IN /\ n <= Len(order)
           /\ \A k \in 1..n : deploy.steps[k].step = order[k]
           /\ \A k \in 1..(n - 1) : deploy.steps[k].returncode = 0
           /\ ~deploy.call.build => n = 0
           /\ failed => deploy.pc = "exited" /\ DeployStatus # 0 /\ untouched
           /\ deploy.pc = "build" => untouched
           /\ deploy.call.build /\ deploy.pc \in {"makedirs", "copy", "mtlx", "done"} =>
                 n = Len(order) /\ ~failed

\* The renderer's build has failed after two good steps over a host tree
\* deployed before: the run has ended there and the tree is as it was.
C21_Witness ==
    /\ deploy.pc = "exited"
    /\ Len(deploy.steps) = 3
    /\ deploy.steps[3] = [step |-> "Building Aurora", returncode |-> 1]
    /\ deploy.exit = "Failed to build Aurora"
    /\ deploy.src[4] = Present(2, "built")
    /\ deploy.dst[4] = Present(1, "deployed")

\* C39: during file staging (the --build steps aside) no file or directory
\* is created, modified or deleted under the renderer's repository root or
\* its build output folder, whatever the source tree holds.
C39_RendererTreeUntouched ==
    [][deploy.pc \in {"makedirs", "copy", "mtlx"} =>
          /\ deploy'.src = deploy.src
          /\ deploy'.mtlxSrc = deploy.mtlxSrc]_vars

\* A step that finds the host's lib/MaterialX folder leaves the host's
\* MaterialX tree as it is.
MaterialXKept ==
    usd_mtlx_folder \in DOMAIN deploy.mtlxDst => deploy'.mtlxDst = deploy.mtlxDst

\* C40: after a run that completes staging the host's lib/MaterialX folder
\* exists, also when the renderer's MaterialX folder was missing or empty;
\* and once that folder exists no step of any run changes the host's
\* MaterialX tree, so that only the first run that stages can copy MaterialX
\* files and a later run adds none of those a later build has produced.
C40_SeededOnce ==
    [](deploy.pc = "done" => usd_mtlx_folder \in DOMAIN deploy.mtlxDst)
        /\ [][MaterialXKept]_vars

\* The first run found neither a host lib/MaterialX nor files in the
\* renderer's MaterialX folder and left an empty lib/MaterialX; the renderer
\* was then built with a MaterialX library; the second run has completed
\* staging and the host's folder is still empty.
C40_Witness ==
    /\ deploy.pc = "done"
    /\ deploy.runs = 2
    /\ deploy.rebuilds = 1
    /\ DOMAIN deploy.before.mtlxDst = {usd_mtlx_folder}
    /\ DOMAIN deploy.mtlxDst = {usd_mtlx_folder}
    /\ deploy.mtlxCopies = {}
    /\ \E q \in DOMAIN deploy.mtlxSrc : ~deploy.mtlxSrc[q].dir

---------------------------------------------------------------------------
\* Properties of minifyShaders.py (specification SpecMinify).

\* The header written last holds what the preprocessor left.
HeaderWritten ==
    /\ minify.pc \in {"dxc", "done"}
    /\ minify.outputFileIdx >= 1

LastHeader == minify.headers[minify.ouputHeaderFiles[minify.outputFileIdx]]

\* C22: the buffer is flushed as soon as it exceeds 100 characters, so the
\* header made from a single line of exactly 250 plain characters holds at
\* least 3 quoted segments.
C22_LongLineSegments ==
    HeaderWritten /\ Len(minify.preprocessed) = 1 =>
        LET ln == minify.preprocessed[1]
        IN (Len(ln) = 250 /\ \A i \in 1..Len(ln) : ln[i] \in {"x", "n", "a"}) =>
               Len(LastHeader.segments) >= 3

\* C23: with n command-line words, the script name included, the usage text
\* is printed and the run ends with status -1, the preprocessor not invoked,
\* exactly when n < 3 or n is odd and at least 5; with n = 3 the definitions
\* default; a run that ends well has made (n - 2) / 2 headers, counted after
\* the defaulting, the i-th header with the i-th definitions.
C23_UsageError ==
    minify.pc # "none" =>
        LET n == Len(minify.words)
            usage == minify.printed # <<>> /\ minify.printed[1] = "Usage"
            count == (IF n = 3 THEN 2 ELSE n - 2) \div 2
        IN /\ usage <=> (n < 3 \/ (n % 2 = 1 /\ n >= 5))
           /\ usage =>
                 /\ minify.pc = "exited"
                 /\ minify.status = <<-1>>
                 /\ minify.commands = <<>>
                 /\ minify.headers = <<>>
           /\ ~usage /\ n = 3 => minify.dxcDefines = <<<<"QUOTE", "QUOTE">>>>
           /\ minify.pc = "done" =>
                 /\ Len(minify.commands) = count
                 /\ Cardinality(DOMAIN minify.headers) = count
                 /\ \A i \in 1..count :
                       /\ minify.words[2 * i + 1] \in DOMAIN minify.headers
                       /\ minify.commands[i].output
                              = Append(minify.words[2 * i + 1], ".preprocessed.hlsl")
                       /\ n # 3 => minify.commands[i].defines = minify.words[2 * i + 2]

\* Three words have been accepted and one header made with the default
\* definitions.
C23_Witness ==
    /\ minify.pc = "done"
    /\ Len(minify.words) = 3
    /\ minify.commands[1].defines = <<"QUOTE", "QUOTE">>
    /\ DOMAIN minify.headers = {<<"out", "/", "A", ".", "h">>}
    /\ minify.headers[<<"out", "/", "A", ".", "h">>].stringName = <<"g_", "A">>

\* The length of the run of backslashes of s that ends at position i.
BackslashRun(s, i) ==
    i - (IF \E j \in 1..i : s[j] # "BSLASH"
         THEN CHOOSE j \in 1..i :
                  s[j] # "BSLASH" /\ \A k \in (j + 1)..i : s[k] = "BSLASH"
         ELSE 0)

\* The text a C++ string literal stands for: backslash n is a newline, a
\* backslash before a quote or a backslash is dropped.
Unescape(s) ==
    Join([i \in 1..Len(s) |->
             IF s[i] = "BSLASH" /\ BackslashRun(s, i) % 2 = 1
             THEN <<>>
             ELSE IF i > 1 /\ s[i - 1] = "BSLASH" /\ BackslashRun(s, i - 1) % 2 = 1
                  THEN IF s[i] = "n" THEN <<"NL">> ELSE <<s[i]>>
                  ELSE <<s[i]>>],
         1, Len(s))

\* The line without the newline that ends it.
LineContent(ln) ==
    IF ln # <<>> /\ ln[Len(ln)] = "NL" THEN SubSeq(ln, 1, Len(ln) - 1) ELSE ln

\* No comment, no run of whitespace, no tab, no quote and no backslash.
PlainLine(ln) ==
    /\ \A i \in 1..Len(LineContent(ln)) : ln[i] \in {"x", "n", "a", "SP", "SLASH"}
    /\ \A i \in 1..(Len(ln) - 1) :
           /\ ~(ln[i] = "SLASH" /\ ln[i + 1] = "SLASH")
           /\ ~(ln[i] = "SP" /\ ln[i + 1] = "SP")

PlainInput ==
    /\ minify.preprocessed # <<>>
    /\ \A k \in 1..Len(minify.preprocessed) : PlainLine(minify.preprocessed[k])

\* What the quoted segments of the last header stand for, in order.
HeaderText == Unescape(Join(LastHeader.segments, 1, Len(LastHeader.segments)))

\* C32 as stated: for plain input lines, the segments of the header,
\* concatenated and unescaped, are the input lines in order, each followed by
\* exactly one newline.
C32_RoundTripNewlines ==
    HeaderWritten /\ PlainInput =>
        HeaderText = Join([k \in 1..Len(minify.preprocessed) |->
                              Append(LineContent(minify.preprocessed[k]), "NL")],
                          1, Len(minify.preprocessed))

\* C32, amended: for plain input lines, the segments of the header,
\* concatenated and unescaped, are the text of the input, character by
\* character: every line in order, followed by one newline where the input
\* has one; a last line that does not end with a newline gets none.
C32_RoundTripExact ==
    HeaderWritten /\ PlainInput =>
        HeaderText = Join(minify.preprocessed, 1, Len(minify.preprocessed))

\* A header was made of four plain lines, the last without a newline: the
\* buffer was flushed once, in the middle of the input.
C32_Witness ==
    /\ HeaderWritten
    /\ PlainInput
    /\ Len(minify.preprocessed) = 4
    /\ Len(LastHeader.segments) = 2
    /\ Len(LastHeader.segments[1]) > 100
    /\ LastHeader.segments[2] = <<"a", "SP", "n">>
    /\ HeaderText = Join(minify.preprocessed, 1, 4)

\* The run has ended at one of the two opens of an output.
OpenFailed ==
    /\ minify.pc \in {"exited", "raised"}
    /\ minify.printed # <<>>
    /\ minify.printed[Len(minify.printed)] \in {"Failed to open", "NameError"}

\* C33: when the header cannot be opened for writing, or the side-car file
\* cannot be opened for reading, the script prints the path it could not
\* open and ends with status -1, and no later output is processed.
C33_OpenFailureFatal ==
    OpenFailed =>
        /\ minify.printed[Len(minify.printed)] = "Failed to open"
        /\ minify.status = <<-1>>
        /\ Len(minify.commands) = minify.outputFileIdx + 1

---------------------------------------------------------------------------
\* Properties of the installer process (specification SpecProc).
\* proc.commands holds the commands started through Run, in order, each with
\* the directory it was started in and the libraries built by then;
\* proc.exits, proc.returned and proc.raises hold how they ended.

\* The install directories of all required dependencies.
RequiredInstDirs ==
    {InstDirOf(RequiredDependenciesOn["Windows"][i]) :
        i \in 1..Len(RequiredDependenciesOn["Windows"])}

\* The commands RunCMake runs.
IsCMake(c) == c.cmd.name \in {"cmake", "cmake --build"}

\* The last command started.
LastCommand == proc.commands[Len(proc.commands)]

\* C26 as stated: the prefix path passed to a configure step holds the
\* install directory of no library whose build has not completed in this run,
\* and a failed configure or build leaves the set as it was before RunCMake.
C26_PrefixAfterSuccess ==
    /\ \A i \in 1..Len(proc.commands) :
           proc.commands[i].op = "configure" =>
               \A d \in DOMAIN ProcDependencies :
                   InstDirOf(d) \in proc.commands[i].cmd.prefixPaths =>
                       d \in proc.commands[i].built
    /\ proc.error # <<>> /\ IsCMake(LastCommand) =>
           proc.cmakePrefixPaths = proc.prefixBefore

\* C26, amended: the prefix-path set holds the install directory of every
\* required dependency from before the install loop on, built or not; the
\* install directory RunCMake adds before the configure step is already in
\* it, so every configure step is passed exactly these directories, and
\* neither a successful nor a failed configure or build changes the set.
C26_PrefixPathsFixed ==
    /\ proc.pc # "none" => proc.cmakePrefixPaths = RequiredInstDirs
    /\ \A i \in 1..Len(proc.commands) :
           proc.commands[i].op = "configure" =>
               proc.commands[i].cmd.prefixPaths = RequiredInstDirs
    /\ proc.error # <<>> /\ IsCMake(LastCommand) =>
           proc.cmakePrefixPaths = proc.prefixBefore

\* The build of zlib, the first library of the run, has failed: its configure
\* step was passed the install directories of zlib itself and of USD, neither
\* of them built, and the set is what it was.
C26_Witness ==
    /\ proc.pc = "exited"
    /\ proc.status = <<1>>
    /\ LastCommand.cmd.name = "cmake --build"
    /\ LastCommand.cmd.lib = Idx.ZLIB
    /\ proc.commands[1].op = "configure"
    /\ proc.commands[1].built = {}
    /\ {InstDirOf(Idx.ZLIB), InstDirOf(Idx.USD)} \subseteq proc.commands[1].cmd.prefixPaths
    /\ proc.cmakePrefixPaths = proc.prefixBefore

\* The entries this run has written to log.txt of directory p, in order.
EntriesOf(p) ==
    LET F[i \in 0..Len(proc.commands)] ==
            IF i = 0 THEN <<>>
            ELSE IF proc.commands[i].cwd = p
                 THEN Append(F[i - 1], [cmd |-> proc.commands[i].cmd, written |-> "now"])
                 ELSE F[i - 1]
    IN F[Len(proc.commands)]

\* What log.txt of directory p held when the run started.
EarlierOf(p) ==
    IF proc.earlier /\ p \in EarlierLogDirs THEN <<EarlierEntry>> ELSE <<>>

\* The directories in which this run has started a command.
CommandDirs == {proc.commands[i].cwd : i \in 1..Len(proc.commands)}

Spawned == {i \in 1..Len(proc.commands) : proc.commands[i].spawned}

\* The commands from which Run has returned.
Returned == {proc.returned[i] : i \in 1..Len(proc.returned)}

\* What Run raises for command i when its exit status is not 0.
RunError(i) ==
    [type |-> "RuntimeError",
     cmd |-> <<proc.commands[i].cmd>>,
     log |-> proc.commands[i].cwd \o <<<<"log.txt">>>>]

\* Run up to the raise: the command line is in the log before the subprocess
\* is started, Run does not return while the subprocess runs, it returns if
\* and only if the exit status is 0, and raises RunError otherwise.
RunContract ==
    /\ proc.pc = "child" =>
           /\ proc.logs[proc.cwd] # <<>>
           /\ proc.logs[proc.cwd][Len(proc.logs[proc.cwd])]
                  = [cmd |-> LastCommand.cmd, written |-> "now"]
           /\ Len(proc.commands) \notin Returned
           /\ \A e \in 1..Len(proc.exits) :
                  proc.exits[e].command # Len(proc.commands)
    /\ \A i \in Returned : i \in Spawned
    /\ \A e \in 1..Len(proc.exits) :
           /\ proc.exits[e].command \in Returned <=> proc.exits[e].returncode = 0
           /\ proc.exits[e].returncode # 0 =>
                  \E r \in 1..Len(proc.raises) :
                      /\ proc.raises[r].command = proc.exits[e].command
                      /\ proc.raises[r].error = RunError(proc.exits[e].command)

\* Command i has failed and nothing was executed after it: it is the last
\* command, and the installer is left by the error.
NothingAfter(i) ==
    /\ i = Len(proc.commands)
    /\ proc.pc \in {"raising", "exited"}
    /\ proc.status # <<0>>
    /\ proc.error # <<>>

\* C29 as stated: the contract of Run, and nothing is executed after a
\* failing command in the same installer.
C29_RunContractAll ==
    /\ RunContract
    /\ \A r \in 1..Len(proc.raises) : NothingAfter(proc.raises[r].command)

\* C29, amended: the contract of Run, and nothing is executed after a failing
\* command in the same installer unless the command is the git apply of
\* ApplyGitPatch: its failure is caught and reported as a warning, and the
\* installer goes on with the commands that follow.
C29_RunContractButPatch ==
    /\ RunContract
    /\ \A r \in 1..Len(proc.raises) :
           IF proc.commands[proc.raises[r].command].op = "patch"
           THEN proc.raises[r].command
                    \in {proc.warnings[w] : w \in 1..Len(proc.warnings)}
           ELSE NothingAfter(proc.raises[r].command)

\* The patch of OpenImageIO has failed with status 1, cmake was configured all
\* the same, and the build has failed: the run ends with the error of Run.
C29_Witness ==
    /\ proc.pc = "exited"
    /\ proc.status = <<1>>
    /\ Len(proc.raises) = 2
    /\ proc.commands[proc.raises[1].command].op = "patch"
    /\ proc.raises[1].error.type = "RuntimeError"
    /\ proc.raises[2].command = Len(proc.commands)
    /\ proc.error = <<RunError(Len(proc.commands))>>
    /\ LastCommand.cmd.name = "cmake --build"
    /\ LastCommand.cmd.lib = Idx.OPENIMAGEIO
    /\ Cardinality(Returned) >= 1

\* C30: when a CurrentWorkingDirectory block is left, by return or by an
\* exception, at any depth, the working directory is the one in effect when
\* the block was entered; so every installer starts in the directory the run
\* started in, and the run ends there, after a failure too.
C30_WorkingDirectoryRestored ==
    /\ \A i \in 1..Len(proc.left) : proc.left[i].now = proc.left[i].entered
    /\ \A i \in 1..Len(proc.starts) : proc.starts[i] = proc.startDir
    /\ proc.pc \in {"loop", "exited"} => proc.cwd = proc.startDir
    /\ proc.pc = "raising" /\ proc.frames = <<>> => proc.cwd = proc.startDir

\* The second installer of a run has failed two blocks deep: both blocks were
\* left by the exception, blocks of the first installer by return, and the
\* run has ended in the directory it started in.
C30_Witness ==
    /\ proc.pc = "exited"
    /\ proc.status = <<1>>
    /\ Len(proc.starts) = 2
    /\ \E i, j \in 1..Len(proc.left) :
           /\ proc.left[i].by = "exception" /\ proc.left[i].depth = 2
           /\ proc.left[j].by = "exception" /\ proc.left[j].depth = 1
    /\ \E i \in 1..Len(proc.left) :
           proc.left[i].by = "return" /\ proc.left[i].depth = 2
    /\ proc.cwd = proc.startDir

\* The generator and the job count the user selected.
UserContext == [cmakeGenerator |-> proc.userGenerator, numJobs |-> proc.userJobs]

\* C34: when the OpenSubdiv installer returns or raises, the generator and
\* the job count of the install context are what they were when it was
\* entered: every installer of the run starts with the values the user
\* selected, and so does whatever follows the install loop.
C34_OverridesRestored ==
    /\ \A i \in 1..Len(proc.contexts) : proc.contexts[i] = UserContext
    /\ proc.pc \in {"loop", "exited"} =>
           [cmakeGenerator |-> proc.cmakeGenerator, numJobs |-> proc.numJobs] = UserContext
    /\ proc.pc = "raising" /\ proc.handlers = <<>> =>
           [cmakeGenerator |-> proc.cmakeGenerator, numJobs |-> proc.numJobs] = UserContext

\* With Ninja selected, OpenSubdiv was configured without a generator and
\* built; cxxopts, after it, was configured with Ninja, and the run has ended
\* with Ninja in the context.
C34_Witness ==
    /\ proc.pc = "exited"
    /\ proc.status = <<0>>
    /\ proc.userGenerator = "Ninja"
    /\ proc.cmakeGenerator = "Ninja"
    /\ \E i \in 1..Len(proc.commands) :
           /\ proc.commands[i].op = "configure"
           /\ proc.commands[i].cmd.lib = Idx.OPENSUBDIV
           /\ proc.commands[i].generator = "None"
    /\ LastCommand.cmd.lib = Idx.CXXOPTS
    /\ LastCommand.generator = "Ninja"

---------------------------------------------------------------------------
\* Properties of PatchFile (specification SpecPatch).

\* C31: after any number of applications of PatchFile to a file, if the file
\* differs from its original content then the backup <file>.old holds the
\* original content; a call that changes nothing writes neither the file nor
\* the backup.
C31_BackupHoldsOriginal ==
    /\ patch.pc = "extracted" /\ patch.file # patch.original =>
           patch.backup = <<patch.original>>
    /\ \A i \in 1..Len(patch.writes) :
           ~patch.writes[i].changed =>
               ~patch.writes[i].file /\ ~patch.writes[i].backup
====
